---- MODULE Spec2Model ----
(***************************************************************************)
(* A model of the tnetstring codec: the framing core of tns_core.c         *)
(* (tns_parse, tns_parse_payload, tns_render_value and the back-writing    *)
(* output buffer) joined to the CPython value adapter and the entry points *)
(* loads / pop / load / dumps of _tnetstring.c.                            *)
(*                                                                         *)
(* A byte is a one-character string.  A byte string is a sequence of       *)
(* bytes.  The width of size_t depends on the build: a decoding call is    *)
(* made with size_t 32 or 64 bits wide.  It matters in one computation,    *)
(* value * 10 + digit of a length prefix, which is made before the value   *)
(* is compared with TNS_MAX_LENGTH and wraps when size_t is 32 bits wide.  *)
(***************************************************************************)
EXTENDS Integers, Sequences, FiniteSets, TLC

(***************************************************************************)
(* Bounds of the model.                                                    *)
(***************************************************************************)
MaxSteps == 3       \* steps that build the wire before it is decoded
MaxFailAt == 2      \* the container insertion, or allocation call, that may fail
MaxPops == 2        \* values popped off the wire in a row
MaxCalls == 3       \* putc and puts calls made on one output buffer

(***************************************************************************)
(* Bytes.                                                                  *)
(***************************************************************************)
NUL == "NUL"        \* the terminator CPython stores after the last byte of a string
GARBAGE == "??"     \* content of malloc'ed memory that was never written

DigitChars == <<"0", "1", "2", "3", "4", "5", "6", "7", "8", "9">>
Digits == {DigitChars[i] : i \in 1..10}
DigitVal(c) == (CHOOSE i \in 1..10 : DigitChars[i] = c) - 1
DigitChar(d) == DigitChars[d + 1]
IsSpace(c) == c = " "

TNS_MAX_LENGTH == 999999999

tns_tag_string == ","
tns_tag_integer == "#"
tns_tag_float == "^"
tns_tag_bool == "!"
tns_tag_null == "~"
tns_tag_dict == "}"
tns_tag_list == "]"
Tags == {tns_tag_string, tns_tag_integer, tns_tag_float, tns_tag_bool,
         tns_tag_null, tns_tag_dict, tns_tag_list}

\* The byte at 1-based index i of a CPython string object holding bytes s:
\* the bytes themselves and then the NUL terminator.
At(s, i) == IF i <= Len(s) THEN s[i] ELSE NUL

Max(a, b) == IF a >= b THEN a ELSE b

(***************************************************************************)
(* Python values.  An integer is arbitrary precision: a sign and the       *)
(* decimal digits of its magnitude, most significant first, <<0>> for      *)
(* zero.  A float is a sign, the digits before the point and the digits   *)
(* after it (none when it is integral); the literals of this model are    *)
(* short enough to be exact doubles.  A dict handed to the encoder is the *)
(* sequence of its pairs in the order PyDict_Next yields them.            *)
(***************************************************************************)
PyNone == [t |-> "null"]
PyBool(b) == [t |-> "bool", b |-> b]
PyLong(neg, mag) == [t |-> "int", neg |-> neg, mag |-> mag]
PyFloat(neg, mag, frac) == [t |-> "float", neg |-> neg, mag |-> mag, frac |-> frac]
PyString(s) == [t |-> "str", s |-> s]
PyList(items) == [t |-> "list", items |-> items]
PyDict(pairs) == [t |-> "dict", pairs |-> pairs]
PyObjectOther == [t |-> "object"]     \* a value with no tnetstring type

\* Decimal magnitude without padding zeros.
RECURSIVE StripZeros(_)
StripZeros(ds) ==
  IF Len(ds) > 1 /\ ds[1] = 0 THEN StripZeros(Tail(ds)) ELSE ds

RECURSIVE StripTrailingZeros(_)
StripTrailingZeros(ds) ==
  IF ds # <<>> /\ ds[Len(ds)] = 0 THEN StripTrailingZeros(SubSeq(ds, 1, Len(ds) - 1))
                                  ELSE ds

\* The magnitude digits of a C integer n >= 0.
RECURSIVE MagOf(_)
MagOf(n) == IF n < 10 THEN <<n>> ELSE Append(MagOf(n \div 10), n % 10)

\* PyLong_FromLong / PyLong_FromLongLong: the Python integer of a C integer.
PyLong_FromLong(n) ==
  IF n < 0 THEN PyLong(TRUE, MagOf(0 - n)) ELSE PyLong(FALSE, MagOf(n))

\* The value as compared by structural equality: a dict is the set of its
\* pairs, whatever the order they are stored in.
RECURSIVE Norm(_)
Norm(v) ==
  CASE v.t = "list" -> PyList([i \in 1..Len(v.items) |-> Norm(v.items[i])])
    [] v.t = "dict" ->
         PyDict({<<Norm(v.pairs[i][1]), Norm(v.pairs[i][2])>> : i \in 1..Len(v.pairs)})
    [] OTHER -> v

\* Python equality of dict keys: True == 1, False == 0, 1.0 == 1.
KeyNorm(v) ==
  CASE v.t = "bool" -> PyLong(FALSE, IF v.b THEN <<1>> ELSE <<0>>)
    [] v.t = "float" /\ v.frac = <<>> -> PyLong(v.neg /\ v.mag # <<0>>, v.mag)
    [] OTHER -> v
PyEq(a, b) == KeyNorm(a) = KeyNorm(b)
Hashable(v) == v.t \notin {"list", "dict"}

(***************************************************************************)
(* The objects the decoder builds.  cells[id] is the object with handle   *)
(* id: its reference count and its content, where a list holds the        *)
(* handles of its items and a dict the handles of its keys and values.    *)
(* get_null / get_true / get_false hand out a new reference to a shared   *)
(* singleton; every such reference is a cell of its own, so that what is  *)
(* counted is references handed out and references given back.  adds      *)
(* counts the container insertions made so far and failAt names the       *)
(* insertion at which PyList_Append / PyDict_SetItem runs out of memory.  *)
(***************************************************************************)
NULL == 0

\* depth counts the calls of tns_parse that have not returned and deep is
\* the largest it was; uses lists, for every tns_parse that a container
\* loop made and that returned a value, the bytes it consumed and the
\* bytes the loop had left; over tells that tns_parse or
\* tns_parse_payload read a byte at or after the end of the slice it was
\* given.
NewHeap(failAt, bits) ==
  [cells |-> <<>>, adds |-> 0, failAt |-> failAt, size_bits |-> bits, wrapped |-> FALSE,
   depth |-> 0, deep |-> 0, uses |-> <<>>, over |-> FALSE]

\* A new object with one reference, owned by the caller.
PyNew(st, v) == [st EXCEPT !.cells = Append(@, [rc |-> 1, v |-> v])]
LastId(st) == Len(st.cells)

\* The handles an object holds a reference to.
Kids(v) ==
  CASE v.t = "list" -> v.items
    [] v.t = "dict" ->
         [i \in 1..(2 * Len(v.pairs)) |-> v.pairs[(i + 1) \div 2][2 - (i % 2)]]
    [] OTHER -> <<>>

Py_INCREF(cells, id) == [cells EXCEPT ![id].rc = @ + 1]

\* Py_DECREF: drop one reference; the drop that takes the count to zero
\* deallocates the object, which drops the references it holds.  A drop on
\* an object already at zero takes the count below zero: a reference given
\* back twice.
RECURSIVE Py_DECREF(_, _)
RECURSIVE DecrefAll(_, _)
Py_DECREF(cells, id) ==
  LET c1 == [cells EXCEPT ![id].rc = @ - 1]
  IN IF cells[id].rc = 1 THEN DecrefAll(c1, Kids(cells[id].v)) ELSE c1
DecrefAll(cells, ids) ==
  IF ids = <<>> THEN cells ELSE DecrefAll(Py_DECREF(cells, Head(ids)), Tail(ids))

\* The structural value of the object with handle id.
RECURSIVE ValOf(_, _)
ValOf(cells, id) ==
  LET v == cells[id].v
  IN CASE v.t = "list" -> PyList([i \in 1..Len(v.items) |-> ValOf(cells, v.items[i])])
       [] v.t = "dict" ->
            PyDict({<<ValOf(cells, v.pairs[i][1]), ValOf(cells, v.pairs[i][2])>> :
                      i \in 1..Len(v.pairs)})
       [] OTHER -> v

tns_new_dict(st) == PyNew(st, PyDict(<<>>))
tns_new_list(st) == PyNew(st, PyList(<<>>))

tns_free_value(st, value) ==
  IF value = NULL THEN st ELSE [st EXCEPT !.cells = Py_DECREF(@, value)]

\* PyList_Append: takes its own reference to the item.
PyList_Append(st, list, item) ==
  LET n == st.adds + 1
  IN IF n = st.failAt
       THEN [st |-> [st EXCEPT !.adds = n], res |-> -1]
       ELSE [st |-> [st EXCEPT !.adds = n,
                               !.cells = Py_INCREF([@ EXCEPT ![list].v.items = Append(@, item)],
                                                   item)],
             res |-> 0]

tns_add_to_list(st, list, item) ==
  LET a == PyList_Append(st, list, item)
  IN [st |-> [a.st EXCEPT !.cells = Py_DECREF(@, item)], res |-> a.res]

\* PyDict_SetItem: fails on an unhashable key; replaces the value stored
\* under an equal key (the stored key object stays); else stores the pair.
PyDict_SetItem(st, dict, key, item) ==
  LET n == st.adds + 1
      pairs == st.cells[dict].v.pairs
      same == {i \in 1..Len(pairs) : PyEq(st.cells[pairs[i][1]].v, st.cells[key].v)}
  IN IF n = st.failAt \/ ~Hashable(st.cells[key].v)
       THEN [st |-> [st EXCEPT !.adds = n], res |-> -1]
       ELSE IF same # {}
         THEN LET i == CHOOSE j \in same : TRUE
                  c1 == Py_INCREF([st.cells EXCEPT ![dict].v.pairs[i][2] = item], item)
              IN [st |-> [st EXCEPT !.adds = n, !.cells = Py_DECREF(c1, pairs[i][2])],
                  res |-> 0]
         ELSE [st |-> [st EXCEPT !.adds = n,
                                 !.cells = Py_INCREF(Py_INCREF(
                                    [@ EXCEPT ![dict].v.pairs = Append(@, <<key, item>>)],
                                    key), item)],
               res |-> 0]

tns_add_to_dict(st, dict, key, item) ==
  LET a == PyDict_SetItem(st, dict, key, item)
  IN [st |-> [a.st EXCEPT !.cells = Py_DECREF(Py_DECREF(@, key), item)], res |-> a.res]

(***************************************************************************)
(* Numeric literals.  A slice is (data, pos, len): the bytes of the whole *)
(* string object, the 1-based index of the slice's first byte and its     *)
(* length; eod = pos + len is the index just past it.  Every result       *)
(* carries rd, the highest index the routine read (0: none).              *)
(***************************************************************************)

\* The digit loops of tns_parse_integer.  The long accumulates in machine
\* arithmetic; the long long, whose values pass what the checker's own
\* integers hold, accumulates its decimal digits.
RECURSIVE long_digits(_, _, _, _)
long_digits(data, p, eod, l) ==
  IF p < eod
    THEN IF At(data, p) \in Digits
           THEN long_digits(data, p + 1, eod, (l * 10) + DigitVal(At(data, p)))
           ELSE [ok |-> FALSE, l |-> l, rd |-> p]
    ELSE [ok |-> TRUE, l |-> l, rd |-> p - 1]

RECURSIVE longlong_digits(_, _, _, _)
longlong_digits(data, p, eod, ll) ==
  IF p < eod
    THEN IF At(data, p) \in Digits
           THEN longlong_digits(data, p + 1, eod,
                                StripZeros(Append(ll, DigitVal(At(data, p)))))
           ELSE [ok |-> FALSE, ll |-> ll, rd |-> p]
    ELSE [ok |-> TRUE, ll |-> ll, rd |-> p - 1]

\* The run of digits starting at index p, read up to the first non-digit.
RECURSIVE DigitRun(_, _)
DigitRun(data, p) ==
  IF At(data, p) \in Digits THEN <<DigitVal(At(data, p))>> \o DigitRun(data, p + 1)
                            ELSE <<>>

RECURSIVE SkipSpace(_, _)
SkipSpace(data, p) == IF IsSpace(At(data, p)) THEN SkipSpace(data, p + 1) ELSE p

\* CPython 2's PyLong_FromString(str, &pend, 10) on the NUL-terminated
\* bytes that start at index pos: optional white space, an optional sign,
\* white space, one or more digits, an optional "L", white space, and then
\* the terminating NUL.  Anything else after the number is an error, and
\* on an error pend is not written.
PyLong_FromString(data, pos) ==
  LET p1 == SkipSpace(data, pos)
      neg == At(data, p1) = "-"
      p2 == IF At(data, p1) \in {"+", "-"} THEN p1 + 1 ELSE p1
      p3 == SkipSpace(data, p2)
      run == DigitRun(data, p3)
      p4 == p3 + Len(run)
      p5 == IF At(data, p4) \in {"L", "l"} THEN p4 + 1 ELSE p4
      p6 == SkipSpace(data, p5)
  IN IF run # <<>> /\ At(data, p6) = NUL
       THEN [ok |-> TRUE, pend |-> p6, rd |-> p6,
             v |-> PyLong(neg /\ StripZeros(run) # <<0>>, StripZeros(run))]
       ELSE [ok |-> FALSE, pend |-> NULL, rd |-> IF run = <<>> THEN p3 ELSE p6,
             v |-> PyNone]

\* Payload lengths from which tns_parse_integer takes its second and its
\* third path.
LongLongPathLen == 10
PyLongPathLen == 19

\* A variant of tns_parse_integer that takes payloads of 19 bytes on the
\* long long path.
tns_parse_integer_wide(data, pos, len) ==
  LET eod == pos + len
      c == At(data, pos)
      sign == IF c = "-" THEN -1 ELSE 1
  IN IF len < LongLongPathLen
       THEN IF c \in Digits \/ c \in {"+", "-"}
              THEN LET r == long_digits(data, pos + 1, eod,
                                        IF c \in Digits THEN DigitVal(c) ELSE 0)
                   IN [ok |-> r.ok, v |-> PyLong_FromLong(r.l * sign),
                       rd |-> Max(pos, r.rd), acc |-> <<"long", MagOf(r.l)>>]
              ELSE [ok |-> FALSE, v |-> PyNone, rd |-> pos, acc |-> <<"long", <<0>>>>]
     ELSE IF len < PyLongPathLen + 1
       THEN IF c \in Digits \/ c \in {"+", "-"}
              THEN LET r == longlong_digits(data, pos + 1, eod,
                                            IF c \in Digits THEN <<DigitVal(c)>> ELSE <<0>>)
                   IN [ok |-> r.ok, v |-> PyLong(sign = -1 /\ r.ll # <<0>>, r.ll),
                       rd |-> Max(pos, r.rd), acc |-> <<"long long", r.ll>>]
              ELSE [ok |-> FALSE, v |-> PyNone, rd |-> pos,
                    acc |-> <<"long long", <<0>>>>]
     \* When PyLong_FromString fails, v is NULL and dataend was never
     \* written: whichever way the comparison of the unwritten dataend
     \* goes, the result is NULL.
     ELSE LET r == PyLong_FromString(data, pos)
          IN [ok |-> r.ok /\ r.pend = eod, v |-> r.v, rd |-> r.rd,
              acc |-> <<"PyLong", <<0>>>>]

\* acc is the C variable the digits were gathered in and its magnitude
\* when the loop ended.
tns_parse_integer(data, pos, len) ==
  LET eod == pos + len
      c == At(data, pos)
      sign == IF c = "-" THEN -1 ELSE 1
  IN IF len < LongLongPathLen
       THEN IF c \in Digits \/ c \in {"+", "-"}
              THEN LET r == long_digits(data, pos + 1, eod,
                                        IF c \in Digits THEN DigitVal(c) ELSE 0)
                   IN [ok |-> r.ok, v |-> PyLong_FromLong(r.l * sign),
                       rd |-> Max(pos, r.rd), acc |-> <<"long", MagOf(r.l)>>]
              ELSE [ok |-> FALSE, v |-> PyNone, rd |-> pos, acc |-> <<"long", <<0>>>>]
     ELSE IF len < PyLongPathLen
       THEN IF c \in Digits \/ c \in {"+", "-"}
              THEN LET r == longlong_digits(data, pos + 1, eod,
                                            IF c \in Digits THEN <<DigitVal(c)>> ELSE <<0>>)
                   IN [ok |-> r.ok, v |-> PyLong(sign = -1 /\ r.ll # <<0>>, r.ll),
                       rd |-> Max(pos, r.rd), acc |-> <<"long long", r.ll>>]
              ELSE [ok |-> FALSE, v |-> PyNone, rd |-> pos,
                    acc |-> <<"long long", <<0>>>>]
     \* When PyLong_FromString fails, v is NULL and dataend was never
     \* written: whichever way the comparison of the unwritten dataend
     \* goes, the result is NULL.
     ELSE LET r == PyLong_FromString(data, pos)
          IN [ok |-> r.ok /\ r.pend = eod, v |-> r.v, rd |-> r.rd,
              acc |-> <<"PyLong", <<0>>>>]

\* strtod(data, &dataend) over the bytes this model writes (no exponent,
\* no "inf"/"nan"/hex): white space, an optional sign, digits with an
\* optional "." inside, before or after them.  With no digit nothing is
\* converted: dataend = data and the value is 0.  tns_parse_float accepts
\* when dataend = data + len.
tns_parse_float(data, pos, len) ==
  LET p1 == SkipSpace(data, pos)
      neg == At(data, p1) = "-"
      p2 == IF At(data, p1) \in {"+", "-"} THEN p1 + 1 ELSE p1
      int == DigitRun(data, p2)
      p3 == p2 + Len(int)
      dot == At(data, p3) = "."
      frac == IF dot THEN DigitRun(data, p3 + 1) ELSE <<>>
      none == int = <<>> /\ frac = <<>>
      p4 == IF dot THEN p3 + 1 + Len(frac) ELSE p3
      dataend == IF none THEN pos ELSE p4
  IN [ok |-> dataend = pos + len,
      v |-> IF none THEN PyFloat(FALSE, <<0>>, <<>>)
                    ELSE PyFloat(neg, StripZeros(IF int = <<>> THEN <<0>> ELSE int),
                                 StripTrailingZeros(frac)),
      rd |-> p4]

(***************************************************************************)
(* The decoder of tns_core.c.  err is the message of the last              *)
(* PyErr_Format / PyErr_SetString: a later check overwrites the message of *)
(* an earlier, inner one.                                                  *)
(***************************************************************************)
ErrLengthPrefix == "Not a tnetstring: invalid length prefix."
ErrAbsurdLength == "Not a tnetstring: absurdly large length prefix"
ErrString == "Not a tnetstring: invalid string literal."
ErrInteger == "Not a tnetstring: invalid integer literal."
ErrFloat == "Not a tnetstring: invalid float literal."
ErrBoolean == "Not a tnetstring: invalid boolean literal."
ErrNull == "Not a tnetstring: invalid null literal."
ErrDict == "Not a tnetstring: broken dict items."
ErrList == "Not a tnetstring: broken list items."
ErrTypeTag == "Not a tnetstring: invalid type tag."
ErrLoadPrefix == "Not a tnetstring: invlaid or missing length prefix"
ErrLoadColon == "Not a tnetstring: missing length prefix"
NoErr == ""

\* The widths of size_t a build can have.
SizeWidths == {32, 64}

\* (value * 10) + digit in size_t arithmetic, for value <= TNS_MAX_LENGTH,
\* and its comparison with TNS_MAX_LENGTH.  The number is computed in two
\* halves of 16 and more bits: with 32 bits the upper half keeps its low 16
\* bits only.  over is (result > TNS_MAX_LENGTH); v is the result when it
\* is not over.
size_t_accumulate(value, digit, bits) ==
  LET low == ((value % (2 ^ 16)) * 10) + digit
      high == ((value \div (2 ^ 16)) * 10) + (low \div (2 ^ 16))
      wrapped == bits = 32 /\ high >= 2 ^ 16
      hi == IF wrapped THEN high % (2 ^ 16) ELSE high
      over == hi > TNS_MAX_LENGTH \div (2 ^ 16)
      v == IF over THEN 0 ELSE (hi * (2 ^ 16)) + (low % (2 ^ 16))
  IN [wrapped |-> wrapped, over |-> over \/ v > TNS_MAX_LENGTH, v |-> v]

\* What tns_strtosz returns: res, *sz and *end; rd is the last index read,
\* err the message of its own check, wrapped whether the value wrapped.
strtosz_return(res, sz, end, rd, err, wrapped) ==
  [res |-> res, sz |-> sz, end |-> end, rd |-> rd, err |-> err, wrapped |-> wrapped]

\* The digit loop of tns_strtosz.
RECURSIVE strtosz_loop(_, _, _, _, _, _)
strtosz_digit(data, p, eod, bits, wrapped, a) ==
  IF a.over
    THEN strtosz_return(-1, 0, NULL, p, ErrAbsurdLength, wrapped \/ a.wrapped)
    ELSE strtosz_loop(data, p + 1, eod, a.v, bits, wrapped \/ a.wrapped)

strtosz_loop(data, p, eod, value, bits, wrapped) ==
  IF p < eod
    THEN IF At(data, p) \notin Digits
           THEN strtosz_return(0, value, p, p, NoErr, wrapped)
           ELSE strtosz_digit(data, p, eod, bits, wrapped,
                              size_t_accumulate(value, DigitVal(At(data, p)), bits))
    ELSE strtosz_return(-1, 0, NULL, p - 1, NoErr, wrapped)

\* A variant of tns_strtosz that reads a leading zero like any other digit.
tns_strtosz_padded(data, pos, len, bits) ==
  IF At(data, pos) \in Digits
    THEN strtosz_loop(data, pos + 1, pos + len, DigitVal(At(data, pos)), bits, FALSE)
    ELSE strtosz_return(-1, 0, NULL, pos, NoErr, FALSE)

tns_strtosz(data, pos, len, bits) ==
  IF At(data, pos) = "0"
    THEN strtosz_return(0, 0, pos + 1, pos, NoErr, FALSE)
  ELSE IF At(data, pos) \in Digits
    THEN strtosz_loop(data, pos + 1, pos + len, DigitVal(At(data, pos)), bits, FALSE)
    ELSE strtosz_return(-1, 0, NULL, pos, NoErr, FALSE)

\* A variant of STR_EQ_TRUE that does not compare the first byte.
STR_EQ_TRUE_tail(data, pos) ==
  /\ At(data, pos + 1) = "r"
  /\ At(data, pos + 2) = "u" /\ At(data, pos + 3) = "e"

STR_EQ_TRUE(data, pos) ==
  /\ At(data, pos) = "t" /\ At(data, pos + 1) = "r"
  /\ At(data, pos + 2) = "u" /\ At(data, pos + 3) = "e"
STR_EQ_FALSE(data, pos) ==
  /\ At(data, pos) = "f" /\ At(data, pos + 1) = "a" /\ At(data, pos + 2) = "l"
  /\ At(data, pos + 3) = "s" /\ At(data, pos + 4) = "e"

Failed(st, err, fail, rd) ==
  [val |-> NULL, remain |-> NULL, st |-> st, err |-> err, fail |-> fail, rd |-> rd]

RECURSIVE tns_parse(_, _, _, _)
RECURSIVE tns_parse_payload(_, _, _, _, _)
RECURSIVE tns_parse_list(_, _, _, _, _)
RECURSIVE tns_parse_dict(_, _, _, _, _)

\* st, with a wrap of the length z noted.
Noting(st, z) == [st EXCEPT !.wrapped = @ \/ z.wrapped]

\* A variant of tns_parse_return that leaves the remainder at the type tag.
tns_parse_return_at_tag(p, end) ==
  [val |-> p.val, remain |-> end, st |-> p.st, err |-> p.err,
   fail |-> IF p.val = NULL THEN "payload" ELSE "none", rd |-> Max(end, p.rd)]

\* What tns_parse returns once the payload is parsed; end is the index of
\* the type tag, remain the index *remain would receive.
tns_parse_return(p, end) ==
  [val |-> p.val, remain |-> end + 1,
   st |-> [p.st EXCEPT !.over = @ \/ p.rd >= end], err |-> p.err,
   fail |-> IF p.val = NULL THEN "payload" ELSE "none", rd |-> Max(end, p.rd)]

\* A variant of the checks of tns_parse whose last one lets the type tag
\* be missing (valstr + vallen <= data + len).
tns_parse_checks_untagged(st, data, pos, len, z) ==
  IF z.res = -1
    THEN Failed(Noting(st, z), ErrLengthPrefix,
                IF z.err = ErrAbsurdLength THEN "bound" ELSE "prefix", z.rd)
  ELSE IF At(data, z.end) # ":"
    THEN Failed(Noting(st, z), ErrLengthPrefix, "colon", z.end)
  ELSE IF ~((z.end + 1) + z.sz <= pos + len)
    THEN Failed(Noting(st, z), ErrLengthPrefix, "truncated", z.end)
  ELSE tns_parse_return(
         tns_parse_payload(Noting(st, z), At(data, (z.end + 1) + z.sz), data,
                           z.end + 1, z.sz),
         (z.end + 1) + z.sz)

\* The three checks of tns_parse on z, what tns_strtosz returned, and the
\* dispatch on the type tag.  valstr is z.end + 1 and vallen is z.sz.  fail
\* names the check that failed: "prefix" or "bound" (tns_strtosz), "colon",
\* "truncated" or "payload".
tns_parse_checks(st, data, pos, len, z) ==
  IF z.res = -1
    THEN Failed(Noting(st, z), ErrLengthPrefix,
                IF z.err = ErrAbsurdLength THEN "bound" ELSE "prefix", z.rd)
  ELSE IF At(data, z.end) # ":"
    THEN Failed(Noting(st, z), ErrLengthPrefix, "colon", z.end)
  ELSE IF ~((z.end + 1) + z.sz < pos + len)
    THEN Failed(Noting(st, z), ErrLengthPrefix, "truncated", z.end)
  ELSE tns_parse_return(
         tns_parse_payload(Noting(st, z), At(data, (z.end + 1) + z.sz), data,
                           z.end + 1, z.sz),
         (z.end + 1) + z.sz)

\* The call of tns_parse and its return, counted in depth.
parse_called(st) == [st EXCEPT !.depth = @ + 1, !.deep = Max(@, st.depth + 1)]
parse_returned(r, pos, len) ==
  [r EXCEPT !.st.depth = @ - 1, !.st.over = @ \/ r.rd >= pos + len]

\* tns_parse on the slice (data, pos, len).
tns_parse(st, data, pos, len) ==
  parse_returned(
    tns_parse_checks(parse_called(st), data, pos, len,
                     tns_strtosz(data, pos, len, st.size_bits)),
    pos, len)

\* What tns_parse returned to a container loop that had len bytes left
\* from index pos on: remain - data bytes are taken off len.
loop_parsed(r, pos, len) ==
  IF r.val = NULL THEN r ELSE [r EXCEPT !.st.uses = Append(@, <<r.remain - pos, len>>)]

\* The value a case of tns_parse_payload made is the newest object of s1.
payload_made(s1, rd) == [val |-> LastId(s1), st |-> s1, err |-> NoErr, rd |-> rd]
payload_failed(st, err, rd) == [val |-> NULL, st |-> st, err |-> err, rd |-> rd]

\* check(val != NULL, ...) after parse_integer or parse_float returned r.
payload_number(st, r, err) ==
  IF r.ok THEN payload_made(PyNew(st, r.v), r.rd) ELSE payload_failed(st, err, r.rd)

\* A variant of payload_container that returns the container as far as it
\* was filled when an element failed.
payload_container_partial(val, r, err) ==
  [val |-> val, st |-> r.st, err |-> NoErr, rd |-> r.rd]

\* check(tns_parse_dict / tns_parse_list(...) != -1, ...) on the new
\* container val: at the error label the container is freed.
payload_container(val, r, err) ==
  IF r.res # -1
    THEN [val |-> val, st |-> r.st, err |-> NoErr, rd |-> r.rd]
    ELSE payload_failed(tns_free_value(r.st, val), err, r.rd)

\* A variant of tns_parse_payload that reads the payload of an unknown
\* type tag as a string.
tns_parse_payload_any_tag(st, type, data, pos, len) ==
  CASE type = tns_tag_string ->
         payload_made(PyNew(st, PyString(SubSeq(data, pos, pos + len - 1))),
                      pos + len - 1)
    [] type = tns_tag_integer ->
         payload_number(st, tns_parse_integer(data, pos, len), ErrInteger)
    [] type = tns_tag_float ->
         payload_number(st, tns_parse_float(data, pos, len), ErrFloat)
    [] type = tns_tag_bool ->
         IF len = 4 /\ STR_EQ_TRUE(data, pos)
           THEN payload_made(PyNew(st, PyBool(TRUE)), pos + 3)
         ELSE IF len = 5 /\ STR_EQ_FALSE(data, pos)
           THEN payload_made(PyNew(st, PyBool(FALSE)), pos + 4)
         ELSE payload_failed(st, ErrBoolean, IF len \in {4, 5} THEN pos ELSE 0)
    [] type = tns_tag_null ->
         IF len = 0 THEN payload_made(PyNew(st, PyNone), 0)
                    ELSE payload_failed(st, ErrNull, 0)
    [] type = tns_tag_dict ->
         payload_container(LastId(tns_new_dict(st)),
                           tns_parse_dict(tns_new_dict(st), LastId(tns_new_dict(st)),
                                          data, pos, len),
                           ErrDict)
    [] type = tns_tag_list ->
         payload_container(LastId(tns_new_list(st)),
                           tns_parse_list(tns_new_list(st), LastId(tns_new_list(st)),
                                          data, pos, len),
                           ErrList)
    [] OTHER ->
         payload_made(PyNew(st, PyString(SubSeq(data, pos, pos + len - 1))),
                      pos + len - 1)

\* A variant of tns_parse_payload that does not look at the length of a
\* null payload.
tns_parse_payload_any_null(st, type, data, pos, len) ==
  CASE type = tns_tag_string ->
         payload_made(PyNew(st, PyString(SubSeq(data, pos, pos + len - 1))),
                      pos + len - 1)
    [] type = tns_tag_integer ->
         payload_number(st, tns_parse_integer(data, pos, len), ErrInteger)
    [] type = tns_tag_float ->
         payload_number(st, tns_parse_float(data, pos, len), ErrFloat)
    [] type = tns_tag_bool ->
         IF len = 4 /\ STR_EQ_TRUE(data, pos)
           THEN payload_made(PyNew(st, PyBool(TRUE)), pos + 3)
         ELSE IF len = 5 /\ STR_EQ_FALSE(data, pos)
           THEN payload_made(PyNew(st, PyBool(FALSE)), pos + 4)
         ELSE payload_failed(st, ErrBoolean, IF len \in {4, 5} THEN pos ELSE 0)
    [] type = tns_tag_null ->
         payload_made(PyNew(st, PyNone), 0)
    [] type = tns_tag_dict ->
         payload_container(LastId(tns_new_dict(st)),
                           tns_parse_dict(tns_new_dict(st), LastId(tns_new_dict(st)),
                                          data, pos, len),
                           ErrDict)
    [] type = tns_tag_list ->
         payload_container(LastId(tns_new_list(st)),
                           tns_parse_list(tns_new_list(st), LastId(tns_new_list(st)),
                                          data, pos, len),
                           ErrList)
    [] OTHER -> payload_failed(st, ErrTypeTag, 0)

\* The switch of tns_parse_payload on the type tag.
tns_parse_payload(st, type, data, pos, len) ==
  CASE type = tns_tag_string ->
         payload_made(PyNew(st, PyString(SubSeq(data, pos, pos + len - 1))),
                      pos + len - 1)
    [] type = tns_tag_integer ->
         payload_number(st, tns_parse_integer(data, pos, len), ErrInteger)
    [] type = tns_tag_float ->
         payload_number(st, tns_parse_float(data, pos, len), ErrFloat)
    [] type = tns_tag_bool ->
         IF len = 4 /\ STR_EQ_TRUE(data, pos)
           THEN payload_made(PyNew(st, PyBool(TRUE)), pos + 3)
         ELSE IF len = 5 /\ STR_EQ_FALSE(data, pos)
           THEN payload_made(PyNew(st, PyBool(FALSE)), pos + 4)
         ELSE payload_failed(st, ErrBoolean, IF len \in {4, 5} THEN pos ELSE 0)
    [] type = tns_tag_null ->
         IF len = 0 THEN payload_made(PyNew(st, PyNone), 0)
                    ELSE payload_failed(st, ErrNull, 0)
    [] type = tns_tag_dict ->
         payload_container(LastId(tns_new_dict(st)),
                           tns_parse_dict(tns_new_dict(st), LastId(tns_new_dict(st)),
                                          data, pos, len),
                           ErrDict)
    [] type = tns_tag_list ->
         payload_container(LastId(tns_new_list(st)),
                           tns_parse_list(tns_new_list(st), LastId(tns_new_list(st)),
                                          data, pos, len),
                           ErrList)
    [] OTHER -> payload_failed(st, ErrTypeTag, 0)

\* The result r of the rest of a loop, with the bytes read before it.
read_so_far(r, rd) == [r EXCEPT !.rd = Max(@, rd)]

\* tns_parse_list after add_to_list returned a for the item i: at the
\* error label item is still set, and is freed; otherwise the loop goes on.
list_added(val, data, pos, len, i, a) ==
  IF a.res = -1
    THEN [res |-> -1, st |-> tns_free_value(a.st, i.val), rd |-> i.rd]
    ELSE read_so_far(
           tns_parse_list(a.st, val, data, i.remain, len - (i.remain - pos)), i.rd)

\* tns_parse_list after tns_parse returned i for the item.
list_item(val, data, pos, len, i) ==
  IF i.val = NULL
    THEN [res |-> -1, st |-> i.st, rd |-> i.rd]
    ELSE list_added(val, data, pos, len, i, tns_add_to_list(i.st, val, i.val))

\* One turn of the while loop of tns_parse_list, then the rest of the loop.
tns_parse_list(st, val, data, pos, len) ==
  IF ~(len > 0) THEN [res |-> 0, st |-> st, rd |-> 0]
  ELSE list_item(val, data, pos, len, loop_parsed(tns_parse(st, data, pos, len), pos, len))

\* tns_parse_dict after add_to_dict returned a for the key k and the item
\* i: at the error label key and item are still set, and are freed;
\* otherwise the loop goes on.
dict_added(val, data, pos, len, k, i, a) ==
  IF a.res = -1
    THEN [res |-> -1, st |-> tns_free_value(tns_free_value(a.st, k.val), i.val),
          rd |-> Max(k.rd, i.rd)]
    ELSE read_so_far(
           tns_parse_dict(a.st, val, data, i.remain, len - (i.remain - pos)),
           Max(k.rd, i.rd))

\* tns_parse_dict after tns_parse returned i for the item of the key k.
dict_item(val, data, pos, len, k, i) ==
  IF i.val = NULL
    THEN [res |-> -1, st |-> tns_free_value(i.st, k.val), rd |-> Max(k.rd, i.rd)]
    ELSE dict_added(val, data, pos, len, k, i,
                    tns_add_to_dict(i.st, val, k.val, i.val))

\* A variant of dict_key that ends the loop when the payload ends after a
\* key, dropping the key.
dict_key_alone(val, data, pos, len, k) ==
  IF k.val = NULL
    THEN [res |-> -1, st |-> k.st, rd |-> k.rd]
  ELSE IF len - (k.remain - pos) = 0
    THEN [res |-> 0, st |-> tns_free_value(k.st, k.val), rd |-> k.rd]
    ELSE dict_item(val, data, pos, len, k,
                   tns_parse(k.st, data, k.remain, len - (k.remain - pos)))

\* tns_parse_dict after tns_parse returned k for the key.
dict_key(val, data, pos, len, k) ==
  IF k.val = NULL
    THEN [res |-> -1, st |-> k.st, rd |-> k.rd]
    ELSE dict_item(val, data, pos, len, k,
                   loop_parsed(tns_parse(k.st, data, k.remain, len - (k.remain - pos)),
                               k.remain, len - (k.remain - pos)))

\* One turn of the while loop of tns_parse_dict, then the rest of the loop.
tns_parse_dict(st, val, data, pos, len) ==
  IF ~(len > 0) THEN [res |-> 0, st |-> st, rd |-> 0]
  ELSE dict_key(val, data, pos, len, loop_parsed(tns_parse(st, data, pos, len), pos, len))

(***************************************************************************)
(* The output buffer of tns_core.c: data is written from the back of the  *)
(* allocation towards its front.  buffer is the allocated memory, one     *)
(* byte per element; head is the offset of the last byte written from the *)
(* start of the buffer, so the bytes in use are buffer[head+1 ..          *)
(* alloc_size] (1-based).                                                  *)
(***************************************************************************)
InitialAllocSize == 64

malloc(size) == [i \in 1..size |-> GARBAGE]

tns_outbuf_size(outbuf) == outbuf.alloc_size - outbuf.head

\* Whether the next allocation call returns NULL.  calls counts the
\* allocation calls of the encoding call so far, fails names the ones that
\* fail, live counts the blocks allocated and not freed, nomem tells that
\* some allocation failed.  A buffer pointer of NULL is the empty buffer.
alloc_fails(outbuf) == (outbuf.calls + 1) \in outbuf.fails

tns_outbuf_init(fails) ==
  IF 1 \in fails
    THEN [res |-> -1,
          o |-> [buffer |-> <<>>, head |-> 0, alloc_size |-> 0,
                 calls |-> 1, fails |-> fails, live |-> 0, nomem |-> TRUE]]
    ELSE [res |-> 0,
          o |-> [buffer |-> malloc(InitialAllocSize), head |-> InitialAllocSize,
                 alloc_size |-> InitialAllocSize,
                 calls |-> 1, fails |-> fails, live |-> 1, nomem |-> FALSE]]

tns_outbuf_free(outbuf) ==
  [outbuf EXCEPT !.buffer = <<>>, !.head = 0, !.alloc_size = 0,
                 !.live = IF outbuf.buffer = <<>> THEN @ ELSE @ - 1]

\* A variant of GrowSize that doubles the size once.
GrowSize_once(new_size, needed) == new_size

RECURSIVE GrowSize(_, _)
GrowSize(new_size, needed) ==
  IF new_size < needed THEN GrowSize(new_size * 2, needed) ELSE new_size

tns_outbuf_extend(outbuf, free_size) ==
  LET used_size == tns_outbuf_size(outbuf)
      new_size == GrowSize(outbuf.alloc_size * 2, free_size + used_size)
      new_head == new_size - used_size
  IN IF alloc_fails(outbuf)
       THEN [res |-> -1, o |-> [outbuf EXCEPT !.calls = @ + 1, !.nomem = TRUE]]
       ELSE [res |-> 0,
             o |-> [outbuf EXCEPT
                      !.buffer = [i \in 1..new_size |->
                                    IF i > new_head
                                      THEN outbuf.buffer[outbuf.head + (i - new_head)]
                                      ELSE GARBAGE],
                      !.head = new_head, !.alloc_size = new_size,
                      !.calls = @ + 1]]

\* The store *(--outbuf->head) = c.
putc_store(o, c) == [o EXCEPT !.head = @ - 1, !.buffer[o.head] = c]

tns_outbuf_putc(outbuf, c) ==
  LET e == IF outbuf.head = 0 THEN tns_outbuf_extend(outbuf, 1)
                              ELSE [res |-> 0, o |-> outbuf]
  IN IF e.res = -1 THEN e ELSE [res |-> 0, o |-> putc_store(e.o, c)]

\* A variant of puts_store that copies the data last byte first.
puts_store_backwards(o, data) ==
  LET h == o.head - Len(data)
  IN [o EXCEPT !.head = h,
               !.buffer = [i \in 1..o.alloc_size |->
                             IF i > h /\ i <= h + Len(data)
                               THEN data[(Len(data) - (i - h)) + 1]
                               ELSE o.buffer[i]]]

\* outbuf->head -= len; memmove(outbuf->head, data, len).
puts_store(o, data) ==
  LET h == o.head - Len(data)
  IN [o EXCEPT !.head = h,
               !.buffer = [i \in 1..o.alloc_size |->
                             IF i > h /\ i <= h + Len(data) THEN data[i - h]
                                                            ELSE o.buffer[i]]]

tns_outbuf_puts(outbuf, data) ==
  LET e == IF outbuf.head < Len(data) THEN tns_outbuf_extend(outbuf, Len(data))
                                      ELSE [res |-> 0, o |-> outbuf]
  IN IF e.res = -1 THEN e ELSE [res |-> 0, o |-> puts_store(e.o, data)]

RECURSIVE tns_outbuf_itoa(_, _)
itoa_next(p, n) ==
  IF p.res = -1 THEN p
  ELSE IF n \div 10 > 0 THEN tns_outbuf_itoa(p.o, n \div 10)
  ELSE p

tns_outbuf_itoa(outbuf, n) ==
  itoa_next(tns_outbuf_putc(outbuf, DigitChar(n % 10)), n)

\* The two checks of tns_outbuf_clamp, given the outcome of its putc.
clamp_itoa(p, datalen) ==
  IF p.res = -1 THEN p ELSE tns_outbuf_itoa(p.o, datalen)

\* A variant of tns_outbuf_clamp that counts the type tag in the length.
tns_outbuf_clamp_with_tag(outbuf, orig_size) ==
  clamp_itoa(tns_outbuf_putc(outbuf, ":"), (tns_outbuf_size(outbuf) - orig_size) + 1)

tns_outbuf_clamp(outbuf, orig_size) ==
  clamp_itoa(tns_outbuf_putc(outbuf, ":"), tns_outbuf_size(outbuf) - orig_size)

\* tns_outbuf_memmove: the bytes copied to dest.
tns_outbuf_memmove(outbuf) == SubSeq(outbuf.buffer, outbuf.head + 1, outbuf.alloc_size)

(***************************************************************************)
(* The output buffer tns_outbuf_rev: data is written from the front of    *)
(* the allocation, each call's bytes last byte first, and the whole is    *)
(* reversed in place when the buffer is finalized.  The bytes in use are  *)
(* buffer[1 .. used_size].                                                 *)
(***************************************************************************)
tns_outbuf_size_rev(outbuf) == outbuf.used_size

\* The buffer with its first len bytes in the opposite order.
tns_inplace_reverse(buffer, len) ==
  [i \in 1..Len(buffer) |-> IF i <= len THEN buffer[(len - i) + 1] ELSE buffer[i]]

tns_outbuf_init_rev(fails) ==
  IF 1 \in fails
    THEN [res |-> -1,
          o |-> [buffer |-> <<>>, used_size |-> 0, alloc_size |-> 0,
                 calls |-> 1, fails |-> fails, live |-> 0, nomem |-> TRUE]]
    ELSE [res |-> 0,
          o |-> [buffer |-> malloc(InitialAllocSize), used_size |-> 0,
                 alloc_size |-> InitialAllocSize,
                 calls |-> 1, fails |-> fails, live |-> 1, nomem |-> FALSE]]

\* realloc keeps the bytes of the old block at the front of the new one.
tns_outbuf_extend_rev(outbuf, free_size) ==
  LET new_size == GrowSize(outbuf.alloc_size * 2, free_size + outbuf.used_size)
  IN IF alloc_fails(outbuf)
       THEN [res |-> -1, o |-> [outbuf EXCEPT !.calls = @ + 1, !.nomem = TRUE]]
       ELSE [res |-> 0,
             o |-> [outbuf EXCEPT
                      !.buffer = outbuf.buffer \o malloc(new_size - outbuf.alloc_size),
                      !.alloc_size = new_size, !.calls = @ + 1]]

\* The store outbuf->buffer[outbuf->used_size++] = c.
putc_store_rev(o, c) == [o EXCEPT !.used_size = @ + 1, !.buffer[o.used_size + 1] = c]

tns_outbuf_putc_rev(outbuf, c) ==
  LET e == IF outbuf.alloc_size = outbuf.used_size
             THEN tns_outbuf_extend_rev(outbuf, 1)
             ELSE [res |-> 0, o |-> outbuf]
  IN IF e.res = -1 THEN e ELSE [res |-> 0, o |-> putc_store_rev(e.o, c)]

\* The copy loop of tns_outbuf_puts: the data, last byte first.
puts_store_rev(o, data) ==
  [o EXCEPT !.used_size = @ + Len(data),
            !.buffer = [i \in 1..o.alloc_size |->
                          IF i > o.used_size /\ i <= o.used_size + Len(data)
                            THEN data[(Len(data) - (i - o.used_size)) + 1]
                            ELSE o.buffer[i]]]

tns_outbuf_puts_rev(outbuf, data) ==
  LET e == IF outbuf.alloc_size - outbuf.used_size < Len(data)
             THEN tns_outbuf_extend_rev(outbuf, Len(data))
             ELSE [res |-> 0, o |-> outbuf]
  IN IF e.res = -1 THEN e ELSE [res |-> 0, o |-> puts_store_rev(e.o, data)]

\* tns_outbuf_finalize of the reversing buffer: ok is (return value #
\* NULL), bytes the string returned, term the byte that follows it, len
\* the value len points to when the call returns.  The outcome of the
\* putc of the terminator is not looked at.
finalize_return(ok, bytes, term, len, o) ==
  [ok |-> ok, bytes |-> bytes, term |-> term, len |-> len, o |-> o]

finalize_reversed(r, used_size, haslen, len) ==
  IF haslen
    THEN finalize_return(TRUE, SubSeq(r.buffer, 1, used_size),
                         IF used_size < r.alloc_size THEN r.buffer[used_size + 1]
                                                     ELSE GARBAGE,
                         used_size, r)
    ELSE LET t == tns_outbuf_putc_rev(r, NUL)
         IN finalize_return(TRUE, SubSeq(t.o.buffer, 1, used_size),
                            IF used_size < t.o.alloc_size THEN t.o.buffer[used_size + 1]
                                                          ELSE GARBAGE,
                            len, t.o)

tns_outbuf_finalize_rev(outbuf, haslen, len) ==
  finalize_reversed(
    [outbuf EXCEPT !.buffer = tns_inplace_reverse(outbuf.buffer, outbuf.used_size)],
    outbuf.used_size, haslen, len)

(***************************************************************************)
(* The encoder: tns_render_value and the render callbacks of the adapter. *)
(***************************************************************************)
ErrNotSerializable == "type not serializable."
ErrRenderFailed == "Failed to render value of type"
ErrClamp == "Failed to clamp outbuf"
ErrRender == "Failed to render value."
ErrOutOfMemory == "Out of memory."

tns_get_type(val) ==
  CASE val.t = "bool" -> tns_tag_bool
    [] val.t = "null" -> tns_tag_null
    [] val.t = "int" -> tns_tag_integer
    [] val.t = "float" -> tns_tag_float
    [] val.t = "str" -> tns_tag_string
    [] val.t = "list" -> tns_tag_list
    [] val.t = "dict" -> tns_tag_dict
    [] OTHER -> NUL

DigitsText(ds) == [i \in 1..Len(ds) |-> DigitChar(ds[i])]

\* PyObject_Str of an integer: its decimal digits, "-" first when negative.
PyObject_Str(val) == (IF val.neg THEN <<"-">> ELSE <<>>) \o DigitsText(val.mag)

\* PyObject_Repr of a float the model holds: digits, ".", digits.
PyObject_Repr(val) ==
  (IF val.neg THEN <<"-">> ELSE <<>>) \o DigitsText(val.mag) \o <<".">>
    \o DigitsText(IF val.frac = <<>> THEN <<0>> ELSE val.frac)

tns_render_string(val, outbuf) == tns_outbuf_puts(outbuf, val.s)
tns_render_integer(val, outbuf) == tns_outbuf_puts(outbuf, PyObject_Str(val))
tns_render_float(val, outbuf) == tns_outbuf_puts(outbuf, PyObject_Repr(val))
tns_render_bool(val, outbuf) ==
  IF val.b THEN tns_outbuf_puts(outbuf, <<"t", "r", "u", "e">>)
           ELSE tns_outbuf_puts(outbuf, <<"f", "a", "l", "s", "e">>)

RECURSIVE tns_render_value(_, _)
RECURSIVE tns_render_dict(_, _, _)
RECURSIVE tns_render_list(_, _, _)

\* The end of tns_render_value: the check of res, then the clamp.
render_clamped(r, orig_size) ==
  IF r.res # 0 THEN [res |-> -1, o |-> r.o, err |-> ErrRenderFailed]
  ELSE LET c == tns_outbuf_clamp(r.o, orig_size)
       IN [res |-> c.res, o |-> c.o, err |-> IF c.res = 0 THEN NoErr ELSE ErrClamp]

\* The switch of tns_render_value; o1 is the buffer after the type tag was
\* put, whose outcome is not looked at.
render_switch(val, type, o1) ==
  render_clamped(
    CASE type = tns_tag_string -> tns_render_string(val, o1)
      [] type = tns_tag_integer -> tns_render_integer(val, o1)
      [] type = tns_tag_float -> tns_render_float(val, o1)
      [] type = tns_tag_bool -> tns_render_bool(val, o1)
      [] type = tns_tag_null -> [res |-> 0, o |-> o1]
      [] type = tns_tag_dict -> tns_render_dict(val, o1, 1)
      [] type = tns_tag_list -> tns_render_list(val, o1, Len(val.items)),
    tns_outbuf_size(o1))

\* res is 0 or -1; o is the buffer as the call leaves it.
tns_render_value(val, outbuf) ==
  IF tns_get_type(val) = NUL
    THEN [res |-> -1, o |-> outbuf, err |-> ErrNotSerializable]
    ELSE render_switch(val, tns_get_type(val),
                       tns_outbuf_putc(outbuf, tns_get_type(val)).o)

\* The PyDict_Next loop from pair number pos on: the value, then its key.
dict_rendered_key(val, k, pos) ==
  IF k.res = -1 THEN [res |-> -1, o |-> k.o] ELSE tns_render_dict(val, k.o, pos + 1)

dict_rendered_item(val, i, pos) ==
  IF i.res = -1 THEN [res |-> -1, o |-> i.o]
  ELSE dict_rendered_key(val, tns_render_value(val.pairs[pos][1], i.o), pos)

\* A variant of tns_render_dict that renders each key before its value.
dict_rendered_key_first(val, k, pos) ==
  IF k.res = -1 THEN [res |-> -1, o |-> k.o]
  ELSE dict_rendered_key(val, tns_render_value(val.pairs[pos][2], k.o), pos)

tns_render_dict_key_first(val, outbuf, pos) ==
  IF pos > Len(val.pairs) THEN [res |-> 0, o |-> outbuf]
  ELSE dict_rendered_key_first(val, tns_render_value(val.pairs[pos][1], outbuf), pos)

tns_render_dict(val, outbuf, pos) ==
  IF pos > Len(val.pairs) THEN [res |-> 0, o |-> outbuf]
  ELSE dict_rendered_item(val, tns_render_value(val.pairs[pos][2], outbuf), pos)

\* A variant of list_rendered_item that goes on after an item that failed.
list_rendered_item_anyway(val, i, idx) == tns_render_list(val, i.o, idx - 1)

\* The loop over idx from the last item down to the first.
list_rendered_item(val, i, idx) ==
  IF i.res = -1 THEN [res |-> -1, o |-> i.o] ELSE tns_render_list(val, i.o, idx - 1)

\* A variant of tns_render_list that writes the first item first.
tns_render_list_forward(val, outbuf, idx) ==
  IF idx < 1 THEN [res |-> 0, o |-> outbuf]
  ELSE list_rendered_item(
         val, tns_render_value(val.items[(Len(val.items) - idx) + 1], outbuf), idx)

tns_render_list(val, outbuf, idx) ==
  IF idx < 1 THEN [res |-> 0, o |-> outbuf]
  ELSE list_rendered_item(val, tns_render_value(val.items[idx], outbuf), idx)

(***************************************************************************)
(* tns_render: a buffer of its own, tns_render_value, then the buffer     *)
(* turned into the returned string.  haslen tells whether the len pointer *)
(* is non-NULL and len is the value it points to.                         *)
(***************************************************************************)
\* What tns_render returns: ok is (return value # NULL), bytes the string
\* returned, term the byte that follows it, len the value len points to
\* when the call returns, o the buffer structure.
render_return(ok, bytes, term, len, o, err) ==
  [ok |-> ok, bytes |-> bytes, term |-> term, len |-> len, o |-> o, err |-> err]

\* memmove(outbuf->buffer, outbuf->head, used_size).
finalize_moved(outbuf) ==
  [outbuf EXCEPT !.buffer = [i \in 1..outbuf.alloc_size |->
                               IF i <= tns_outbuf_size(outbuf)
                                 THEN outbuf.buffer[outbuf.head + i]
                                 ELSE outbuf.buffer[i]]]

\* realloc(outbuf->buffer, outbuf->alloc_size * 2) and the terminator.
finalize_terminated(outbuf, m, used_size, len) ==
  IF outbuf.head = 0 /\ alloc_fails(outbuf)
    THEN render_return(FALSE, <<>>, GARBAGE, len,
                       tns_outbuf_free([m EXCEPT !.calls = @ + 1, !.nomem = TRUE]),
                       ErrOutOfMemory)
    ELSE render_return(TRUE, SubSeq(m.buffer, 1, used_size), NUL, len,
                       IF outbuf.head = 0
                         THEN [m EXCEPT !.calls = @ + 1,
                                        !.alloc_size = @ * 2,
                                        !.buffer = Append(@, NUL)
                                                     \o malloc(outbuf.alloc_size - 1)]
                         ELSE [m EXCEPT !.buffer[used_size + 1] = NUL],
                       NoErr)

tns_outbuf_finalize(outbuf, haslen, len) ==
  IF haslen
    THEN render_return(TRUE, SubSeq(finalize_moved(outbuf).buffer, 1, tns_outbuf_size(outbuf)),
                       IF outbuf.head = 0 THEN GARBAGE
                       ELSE finalize_moved(outbuf).buffer[tns_outbuf_size(outbuf) + 1],
                       tns_outbuf_size(outbuf), finalize_moved(outbuf), NoErr)
    ELSE finalize_terminated(outbuf, finalize_moved(outbuf), tns_outbuf_size(outbuf), len)

\* A variant of render_finalized that stores the size through len before
\* it looks at the outcome of the render.
render_finalized_len_first(r, haslen, len) ==
  IF r.res = -1
    THEN render_return(FALSE, <<>>, GARBAGE,
                       IF haslen THEN tns_outbuf_size(r.o) ELSE len,
                       tns_outbuf_free(r.o), ErrRender)
    ELSE tns_outbuf_finalize(r.o, haslen, len)

render_finalized(r, haslen, len) ==
  IF r.res = -1
    THEN render_return(FALSE, <<>>, GARBAGE, len, tns_outbuf_free(r.o), ErrRender)
    ELSE tns_outbuf_finalize(r.o, haslen, len)

render_inited(val, i, haslen, len) ==
  IF i.res = -1
    THEN render_return(FALSE, <<>>, GARBAGE, len, tns_outbuf_free(i.o), ErrOutOfMemory)
    ELSE render_finalized(tns_render_value(val, i.o), haslen, len)

tns_render(val, haslen, len, fails) ==
  render_inited(val, tns_outbuf_init(fails), haslen, len)

(***************************************************************************)
(* The length-prefix reader of _tnetstring_load.  file is the bytes the   *)
(* source will yield, p the number of bytes read from it so far.  Each    *)
(* file.read(n) returns the next n bytes, or fewer at the end of the      *)
(* source.  reads lists the sizes asked for, in call order.               *)
(***************************************************************************)
\* What the prefix loop of _tnetstring_load leaves: p bytes consumed, the
\* sizes of the reads made, datalen, and c, the last byte read.
load_return(ok, err, p, reads, datalen, c, wrapped) ==
  [ok |-> ok, err |-> err, p |-> p, reads |-> reads, datalen |-> datalen, c |-> c,
   wrapped |-> wrapped]

\* The do-while loop over the digits: c, the byte at index p, is a digit.
RECURSIVE load_digits(_, _, _, _, _, _, _)
load_next(file, p, c, reads, bits, wrapped, a) ==
  IF a.over
    THEN load_return(FALSE, ErrAbsurdLength, p, reads, a.v, c, wrapped \/ a.wrapped)
  ELSE IF p >= Len(file)
    THEN load_return(FALSE, ErrLoadPrefix, p, Append(reads, 1), a.v, c,
                     wrapped \/ a.wrapped)
  ELSE IF file[p + 1] \in Digits
    THEN load_digits(file, p + 1, a.v, file[p + 1], Append(reads, 1), bits,
                     wrapped \/ a.wrapped)
    ELSE load_return(TRUE, NoErr, p + 1, Append(reads, 1), a.v, file[p + 1],
                     wrapped \/ a.wrapped)

load_digits(file, p, datalen, c, reads, bits, wrapped) ==
  load_next(file, p, c, reads, bits, wrapped,
            size_t_accumulate(datalen, DigitVal(c), bits))

load_prefix(file, bits) ==
  IF Len(file) = 0 \/ file[1] \notin Digits
    THEN load_return(FALSE, ErrLoadPrefix, IF Len(file) = 0 THEN 0 ELSE 1, <<1>>, 0,
                     NUL, FALSE)
  ELSE IF file[1] = "0"
    THEN IF Len(file) < 2
           THEN load_return(FALSE, ErrLoadPrefix, 1, <<1, 1>>, 0, "0", FALSE)
           ELSE load_return(TRUE, NoErr, 2, <<1, 1>>, 0, file[2], FALSE)
  ELSE load_digits(file, 1, 0, file[1], <<1>>, bits, FALSE)

\* What _tnetstring_load returns once the payload is parsed.
load_parsed(r, p, reads, datalen) ==
  [val |-> r.val, st |-> [r.st EXCEPT !.over = @ \/ r.rd > datalen], err |-> r.err,
   p |-> p, reads |-> reads]

\* A variant of load_payload that reads the source to its end and parses
\* the first datalen + 1 bytes of what it got.
load_payload_to_end(st, file, h, got) ==
  IF Len(got) # h.datalen + 1
    THEN [val |-> NULL, st |-> st, err |-> ErrLengthPrefix, p |-> Len(file),
          reads |-> Append(h.reads, Len(file) - h.p)]
    ELSE load_parsed(tns_parse_payload(st, got[h.datalen + 1], got, 1, h.datalen),
                     Len(file), Append(h.reads, Len(file) - h.p), h.datalen)

\* The read of datalen + 1 bytes and tns_parse_payload on what was read.
load_payload(st, file, h, got) ==
  IF Len(got) # h.datalen + 1
    THEN [val |-> NULL, st |-> st, err |-> ErrLengthPrefix, p |-> h.p + Len(got),
          reads |-> Append(h.reads, h.datalen + 1)]
    ELSE load_parsed(tns_parse_payload(st, got[h.datalen + 1], got, 1, h.datalen),
                     (h.p + h.datalen) + 1, Append(h.reads, h.datalen + 1), h.datalen)

\* A variant of load_checked that takes any byte after the digits for the
\* end of the length prefix.
load_checked_any_marker(st, file, h) ==
  IF ~h.ok
    THEN [val |-> NULL, st |-> st, err |-> h.err, p |-> h.p, reads |-> h.reads]
  ELSE load_payload(st, file, h,
                    SubSeq(file, h.p + 1,
                           IF (h.p + h.datalen) + 1 <= Len(file)
                             THEN (h.p + h.datalen) + 1 ELSE Len(file)))

\* _tnetstring_load after the length prefix h was read.
load_checked(st, file, h) ==
  IF ~h.ok
    THEN [val |-> NULL, st |-> st, err |-> h.err, p |-> h.p, reads |-> h.reads]
  ELSE IF h.c # ":"
    THEN [val |-> NULL, st |-> st, err |-> ErrLoadColon, p |-> h.p, reads |-> h.reads]
  ELSE load_payload(st, file, h,
                    SubSeq(file, h.p + 1,
                           IF (h.p + h.datalen) + 1 <= Len(file)
                             THEN (h.p + h.datalen) + 1 ELSE Len(file)))

\* _tnetstring_load with the byte-string ops: the prefix, the colon, one
\* read of datalen + 1 bytes, and tns_parse_payload on what was read.
tnetstring_load(st, file) ==
  load_checked(Noting(st, load_prefix(file, st.size_bits)), file,
               load_prefix(file, st.size_bits))

(***************************************************************************)
(* The entry points of the Python module, as results.  A NULL return is   *)
(* the exception whose message is err.                                     *)
(***************************************************************************)
NoVal == [t |-> "none"]
RefCounts(cells) == [i \in 1..Len(cells) |-> cells[i].rc]

Nothing ==
  [op |-> "none", in |-> <<>>, ok |-> FALSE, val |-> NoVal, rest |-> <<>>,
   err |-> NoErr, fail |-> "none", rd |-> 0, rcs |-> <<>>, reads |-> <<>>, p |-> 0,
   freed |-> FALSE, oom |-> FALSE, wrapped |-> FALSE, bits |-> 0,
   obj |-> NoVal, live |-> 0, nomem |-> FALSE, haslen |-> FALSE, len0 |-> 0, len |-> 0,
   term |-> GARBAGE, deep |-> 0, uses |-> <<>>, over |-> FALSE]

\* Whether the insertion that was to run out of memory was reached.
OutOfMemory(st) == st.failAt # 0 /\ st.adds >= st.failAt

\* A variant of _tnetstring_loads that asks tns_parse for the remainder and
\* fails unless it is empty.
tnetstring_loads_whole(string, failAt, bits) ==
  LET r == tns_parse(NewHeap(failAt, bits), string, 1, Len(string))
      ok == r.val # NULL /\ r.remain = Len(string) + 1
  IN [Nothing EXCEPT !.op = "loads", !.in = string, !.ok = ok,
        !.val = IF ok THEN ValOf(r.st.cells, r.val) ELSE NoVal,
        !.err = IF ok THEN NoErr ELSE IF r.val # NULL THEN ErrLengthPrefix ELSE r.err,
        !.fail = r.fail, !.rd = r.rd,
        !.rcs = RefCounts(r.st.cells), !.oom = OutOfMemory(r.st),
        !.wrapped = r.st.wrapped, !.bits = bits,
        !.deep = r.st.deep, !.uses = r.st.uses, !.over = r.st.over]

\* _tnetstring_loads: tns_parse with no remainder asked for.
tnetstring_loads(string, failAt, bits) ==
  LET r == tns_parse(NewHeap(failAt, bits), string, 1, Len(string))
      ok == r.val # NULL
  IN [Nothing EXCEPT !.op = "loads", !.in = string, !.ok = ok,
        !.val = IF ok THEN ValOf(r.st.cells, r.val) ELSE NoVal,
        !.err = IF ok THEN NoErr ELSE r.err, !.fail = r.fail, !.rd = r.rd,
        !.rcs = RefCounts(r.st.cells), !.oom = OutOfMemory(r.st),
        !.wrapped = r.st.wrapped, !.bits = bits,
        !.deep = r.st.deep, !.uses = r.st.uses, !.over = r.st.over]

\* _tnetstring_pop: tns_parse with a remainder, returned as a new string.
tnetstring_pop(string, failAt, bits) ==
  LET r == tns_parse(NewHeap(failAt, bits), string, 1, Len(string))
      ok == r.val # NULL
  IN [Nothing EXCEPT !.op = "pop", !.in = string, !.ok = ok,
        !.val = IF ok THEN ValOf(r.st.cells, r.val) ELSE NoVal,
        !.rest = IF ok THEN SubSeq(string, r.remain, Len(string)) ELSE <<>>,
        !.err = IF ok THEN NoErr ELSE r.err, !.fail = r.fail, !.rd = r.rd,
        !.rcs = RefCounts(r.st.cells), !.oom = OutOfMemory(r.st),
        !.wrapped = r.st.wrapped, !.bits = bits,
        !.deep = r.st.deep, !.uses = r.st.uses, !.over = r.st.over]

tnetstring_load_result(file, failAt, bits) ==
  LET r == tnetstring_load(NewHeap(failAt, bits), file)
      ok == r.val # NULL
  IN [Nothing EXCEPT !.op = "load", !.in = file, !.ok = ok,
        !.val = IF ok THEN ValOf(r.st.cells, r.val) ELSE NoVal,
        !.err = IF ok THEN NoErr ELSE r.err, !.rcs = RefCounts(r.st.cells),
        !.reads = r.reads, !.p = r.p, !.oom = OutOfMemory(r.st),
        !.wrapped = r.st.wrapped, !.bits = bits,
        !.deep = r.st.deep, !.uses = r.st.uses, !.over = r.st.over]

\* _tnetstring_dumps: the rendered bytes are copied into a new string and
\* the buffer is freed; the error label returns without freeing it.  obj
\* is the object given, live the blocks the call leaves allocated, nomem
\* whether an allocation failed.
dumps_rendered(object, r) ==
  IF r.res = -1
    THEN [Nothing EXCEPT !.op = "dumps", !.obj = object, !.err = r.err,
            !.live = r.o.live, !.freed = (r.o.live = 0), !.nomem = r.o.nomem]
    ELSE [Nothing EXCEPT !.op = "dumps", !.obj = object, !.ok = TRUE,
            !.val = Norm(object), !.rest = tns_outbuf_memmove(r.o),
            !.live = r.o.live - 1, !.freed = (r.o.live = 1), !.nomem = r.o.nomem]

dumps_inited(object, i) ==
  IF i.res = -1
    THEN [Nothing EXCEPT !.op = "dumps", !.obj = object, !.err = ErrOutOfMemory,
            !.live = i.o.live, !.freed = (i.o.live = 0), !.nomem = i.o.nomem]
    ELSE dumps_rendered(object, tns_render_value(object, i.o))

tnetstring_dumps(object, fails) == dumps_inited(object, tns_outbuf_init(fails))

\* tns_render as a result: rest is the string returned, len0 and len the
\* value len points to before and after the call.
tns_render_result(object, haslen, len, fails) ==
  LET r == tns_render(object, haslen, len, fails)
  IN [Nothing EXCEPT !.op = "render", !.obj = object, !.ok = r.ok,
        !.rest = r.bytes, !.term = r.term, !.err = r.err,
        !.haslen = haslen, !.len0 = len, !.len = r.len,
        !.live = r.o.live, !.freed = (r.o.live = 0), !.nomem = r.o.nomem]

(***************************************************************************)
(* The state machine.  wire is a byte string that a peer and the encoder  *)
(* build up and the decoder is then run on.  made counts the steps that   *)
(* built it; sent lists the values dumps appended; last is the result of  *)
(* the latest codec call.  out is a pair of output buffers, one of each   *)
(* kind, that a caller puts the same data into.                            *)
(***************************************************************************)
VARIABLES wire, sent, made, last, out
vars == <<wire, sent, made, last, out>>

RawBytes == {"0", "1", ":", "+", "-", " ", "~"}

\* The bytes a peer may leave after the encoded values.
JunkBytes == {"0", ":", "~"}

LongDigits ==
  { DigitsText(<<9, 9, 9, 9, 9, 9, 9, 9, 9>>),
    DigitsText(<<1, 0, 0, 0, 0, 0, 0, 0, 0, 0>>),
    DigitsText(<<4, 2, 9, 4, 9, 6, 7, 2, 9, 6>>),     \* 2^32
    DigitsText([i \in 1..(PyLongPathLen - 1) |-> 9]),
    DigitsText(<<1, 0, 0, 0, 0, 0, 0, 0, 0, 0, 0, 0, 0, 0, 0, 0, 0, 0, 0>>) }

One == PyLong(FALSE, <<1>>)
\* A string that, with its tag and the tag of a list around it, fills the
\* first allocation: the next byte written makes the buffer grow.
LongStringLen == InitialAllocSize - 2
Values ==
  { PyNone,
    PyBool(TRUE),
    PyLong(TRUE, <<1, 2>>),
    PyLong(FALSE, <<1, 2, 3, 4, 5, 6, 7, 8, 9, 0>>),
    PyLong(FALSE, <<1, 0, 0, 0, 0, 0, 0, 0, 0, 0, 0, 0, 0, 0, 0, 0, 0, 0, 0>>),
    PyString(<<"0", ":", "~">>),
    PyList(<<>>),
    PyList(<<One, PyList(<<PyNone>>)>>),
    PyDict(<<<<One, PyString(<<"x">>)>>, <<PyString(<<"a">>), PyList(<<PyBool(FALSE)>>)>>>>),
    PyList(<<PyString([i \in 1..LongStringLen |-> "a"])>>),
    PyObjectOther }

\* Values whose encoding fills the first allocation exactly, and whose
\* first item's type tag is put when the first allocation is full.
FullStringLen == InitialAllocSize - 4
NearFullStringLen == InitialAllocSize - 5
FullBufferValues ==
  { PyString([i \in 1..FullStringLen |-> "a"]),
    PyList(<<PyNone, PyString([i \in 1..NearFullStringLen |-> "a"])>>) }

\* Values with a node of no tnetstring type below the root.
UnmappedValues ==
  { PyList(<<One, PyList(<<PyObjectOther>>)>>),
    PyDict(<<<<PyObjectOther, One>>>>),
    PyDict(<<<<One, PyObjectOther>>>>) }

Objects == (Values \cup FullBufferValues) \cup UnmappedValues

\* The values encoded after a first one.
FollowValues == {PyNone, PyBool(TRUE), PyList(<<>>)}

\* Payloads a peer writes for a boolean: the two literals and near misses.
Words ==
  { <<"t", "r", "u", "e">>, <<"f", "a", "l", "s", "e">>, <<"t", "r", "u">>,
    <<"T", "r", "u", "e">>, <<"f", "a", "l", "s", "E">> }

\* The allocation calls of an encoding call that fail.
AllocFailures == SUBSET (1..MaxFailAt)

\* What a peer writes to frame payload as one tnetstring of the given tag.
Frame(payload, tag) == DigitsText(MagOf(Len(payload))) \o <<":">> \o payload \o <<tag>>

\* No output buffer yet.  back is the buffer of tns_core.c and rev the
\* reversing one; res holds what the latest call returned on each; log
\* lists the data of the calls that succeeded, in call order; fin holds
\* what the two finalize calls returned.
NoBuffer == [buffer |-> <<>>, head |-> 0, alloc_size |-> 0,
             calls |-> 0, fails |-> {}, live |-> 0, nomem |-> FALSE]
NoBufferRev == [buffer |-> <<>>, used_size |-> 0, alloc_size |-> 0,
                calls |-> 0, fails |-> {}, live |-> 0, nomem |-> FALSE]
NoFinal == [ok |-> FALSE, bytes |-> <<>>, term |-> GARBAGE, len |-> 0]
NoOut ==
  [phase |-> "none", back |-> NoBuffer, rev |-> NoBufferRev, res |-> <<0, 0>>,
   log |-> <<>>, calls |-> 0, haslen |-> FALSE, fin |-> <<NoFinal, NoFinal>>]

Init ==
  /\ out = NoOut
  /\ wire = <<>>
  /\ sent = <<>>
  /\ made = [raw |-> 0, long |-> 0, dumps |-> 0, junk |-> 0, cut |-> 0, wrap |-> 0,
             pops |-> 0, done |-> FALSE]
  /\ last = Nothing

Steps == made.raw + made.long + made.dumps + made.junk + made.cut + made.wrap
Building == ~made.done /\ made.wrap = 0 /\ made.cut = 0 /\ Steps < MaxSteps

\* A peer writes one byte: at the start of the wire, right after a long
\* run of digits, or after the encoded values.
PutByte(c) ==
  /\ Building
  /\ \/ /\ made.dumps = 0 /\ made.long = 0
        /\ made' = [made EXCEPT !.raw = @ + 1]
     \/ /\ made.dumps = 0 /\ made.long >= 1
        /\ made' = [made EXCEPT !.long = @ + 1]
     \/ /\ made.dumps > 0 /\ c \in JunkBytes
        /\ made' = [made EXCEPT !.junk = @ + 1]
  /\ wire' = Append(wire, c)
  /\ UNCHANGED <<sent, last, out>>

\* A peer writes a long run of digits.
PutDigits(ds) ==
  /\ Building /\ made.dumps = 0 /\ made.long = 0 /\ made.raw <= 1
  /\ wire' = wire \o ds
  /\ made' = [made EXCEPT !.long = 1]
  /\ UNCHANGED <<sent, last, out>>

\* A peer writes a word.
PutWord(w) ==
  /\ Building /\ Steps = 0
  /\ wire' = wire \o w
  /\ made' = [made EXCEPT !.long = 1]
  /\ UNCHANGED <<sent, last, out>>

\* dumps(object), its output appended to the wire.
Dumps(object, fails) ==
  /\ Building /\ made.raw = 0 /\ made.long = 0 /\ made.junk = 0
  /\ (fails # {} \/ object \notin Values) => Steps = 0
  /\ made.dumps > 0 => object \in FollowValues
  /\ last' = tnetstring_dumps(object, fails)
  /\ made' = [made EXCEPT !.dumps = @ + 1]
  /\ wire' = IF last'.ok THEN wire \o last'.rest ELSE wire
  /\ sent' = IF last'.ok THEN Append(sent, object) ELSE sent
  /\ UNCHANGED out

\* The last byte of the encoded values is lost.
Truncate ==
  /\ ~made.done /\ made.wrap = 0 /\ Steps < MaxSteps
  /\ made.dumps > 0 /\ made.junk = 0 /\ wire # <<>>
  /\ wire' = SubSeq(wire, 1, Len(wire) - 1)
  /\ made' = [made EXCEPT !.cut = @ + 1]
  /\ UNCHANGED <<sent, last, out>>

\* A peer frames the wire as the payload of one tnetstring.
Wrap(tag) ==
  /\ ~made.done /\ Steps < MaxSteps
  /\ made.wrap > 0 => tag \in {tns_tag_list, tns_tag_dict}
  /\ wire' = Frame(wire, tag)
  /\ made' = [made EXCEPT !.wrap = @ + 1]
  /\ UNCHANGED <<sent, last, out>>

\* The builds differ only on a prefix of ten digits or more (strtosz, and
\* the type of the length), so the narrow build is tried on the wires that
\* hold a long run.
Build(bits) == bits = 64 \/ made.long > 0

Loads(failAt, bits) ==
  /\ ~made.done /\ Build(bits)
  /\ last' = tnetstring_loads(wire, failAt, bits)
  /\ made' = [made EXCEPT !.done = TRUE]
  /\ UNCHANGED <<wire, sent, out>>

\* pop(string); the caller goes on with the remainder.
Pop(bits) ==
  /\ made.pops < MaxPops /\ Build(bits)
  /\ made.done => last.op = "pop" /\ last.ok /\ wire # <<>>
  /\ last' = tnetstring_pop(wire, 0, bits)
  /\ wire' = IF last'.ok THEN last'.rest ELSE wire
  /\ made' = [made EXCEPT !.done = TRUE, !.pops = @ + 1]
  /\ UNCHANGED <<sent, out>>

Load(bits) ==
  /\ ~made.done /\ Build(bits)
  /\ last' = tnetstring_load_result(wire, 0, bits)
  /\ made' = [made EXCEPT !.done = TRUE]
  /\ UNCHANGED <<wire, sent, out>>

\* tns_render(object, len), with len NULL or pointing to a size_t.
Render(object, haslen, len, fails) ==
  /\ ~made.done /\ Steps = 0
  /\ haslen \/ len = 0
  /\ last' = tns_render_result(object, haslen, len, fails)
  /\ made' = [made EXCEPT !.done = TRUE]
  /\ UNCHANGED <<wire, sent, out>>

Next ==
  \/ \E c \in RawBytes : PutByte(c)
  \/ \E ds \in LongDigits : PutDigits(ds)
  \/ \E w \in Words : PutWord(w)
  \/ \E object \in Objects, fails \in AllocFailures : Dumps(object, fails)
  \/ Truncate
  \/ \E tag \in Tags : Wrap(tag)
  \/ \E failAt \in 0..MaxFailAt, bits \in SizeWidths : Loads(failAt, bits)
  \/ \E bits \in SizeWidths : Pop(bits)
  \/ \E bits \in SizeWidths : Load(bits)
  \/ \E object \in Objects, haslen \in BOOLEAN, len \in 0..1, fails \in AllocFailures :
       Render(object, haslen, len, fails)

Spec == Init /\ [][Next]_vars

(***************************************************************************)
(* The output buffers on their own: a caller initialises a buffer, puts   *)
(* bytes and byte strings into it and finalizes it, and does the same on  *)
(* a buffer of the other kind.                                             *)
(***************************************************************************)
Letters == <<"a", "b", "c">>
Pattern(n) == [i \in 1..n |-> Letters[(i % 3) + 1]]

\* Data that fills the first allocation with a two-byte string, and data
\* that makes the buffer grow to four times its size at once.
FillLen == InitialAllocSize - 2
QuadLen == (InitialAllocSize * 2) + 2
PutcBytes == {"x", "y"}
PutsData == {Pattern(2), Pattern(FillLen), Pattern(QuadLen)}

OutInit(fails) ==
  /\ out.phase = "none"
  /\ out' = [out EXCEPT
               !.phase = IF tns_outbuf_init(fails).res = 0 THEN "open" ELSE "failed",
               !.back = tns_outbuf_init(fails).o,
               !.rev = tns_outbuf_init_rev(fails).o,
               !.res = <<tns_outbuf_init(fails).res, tns_outbuf_init_rev(fails).res>>]
  /\ UNCHANGED <<wire, sent, made, last>>

\* What a put leaves, b and r being its outcomes on the two buffers.
OutPut(data, b, r) ==
  [out EXCEPT !.back = b.o, !.rev = r.o, !.res = <<b.res, r.res>>,
              !.log = IF b.res = 0 THEN Append(@, data) ELSE @,
              !.calls = @ + 1]

OutPutc(c) ==
  /\ out.phase = "open" /\ out.calls < MaxCalls
  /\ out' = OutPut(<<c>>, tns_outbuf_putc(out.back, c), tns_outbuf_putc_rev(out.rev, c))
  /\ UNCHANGED <<wire, sent, made, last>>

OutPuts(data) ==
  /\ out.phase = "open" /\ out.calls < MaxCalls
  /\ out' = OutPut(data, tns_outbuf_puts(out.back, data),
                   tns_outbuf_puts_rev(out.rev, data))
  /\ UNCHANGED <<wire, sent, made, last>>

\* What a finalize call returned, without the buffer structure.
Final(f) == [ok |-> f.ok, bytes |-> f.bytes, term |-> f.term, len |-> f.len]

OutFinalize(haslen) ==
  /\ out.phase = "open"
  /\ out' = [out EXCEPT
               !.phase = "final", !.haslen = haslen,
               !.back = tns_outbuf_finalize(out.back, haslen, 0).o,
               !.rev = tns_outbuf_finalize_rev(out.rev, haslen, 0).o,
               !.fin = <<Final(tns_outbuf_finalize(out.back, haslen, 0)),
                         Final(tns_outbuf_finalize_rev(out.rev, haslen, 0))>>]
  /\ UNCHANGED <<wire, sent, made, last>>

BufNext ==
  \/ \E fails \in AllocFailures : OutInit(fails)
  \/ \E c \in PutcBytes : OutPutc(c)
  \/ \E data \in PutsData : OutPuts(data)
  \/ \E haslen \in BOOLEAN : OutFinalize(haslen)

BufSpec == Init /\ [][BufNext]_vars

(***************************************************************************)
(* The wire format as the specification states it, read off the bytes     *)
(* without the decoder: the properties below compare the codec with it.   *)
(***************************************************************************)
RECURSIVE LeadDigits(_, _)
LeadDigits(s, i) ==
  IF i <= Len(s) /\ s[i] \in Digits THEN 1 + LeadDigits(s, i + 1) ELSE 0

RECURSIVE DecimalValue(_, _)
DecimalValue(s, n) ==
  IF n = 0 THEN 0 ELSE (DecimalValue(s, n - 1) * 10) + DigitVal(s[n])

\* Number of decimal digits of the largest length the format allows.
MaxLengthDigits == Len(MagOf(TNS_MAX_LENGTH))

\* s starts with a canonical length numeral within the bound and a colon.
GoodPrefix(s) ==
  LET n == LeadDigits(s, 1)
  IN /\ n >= 1 /\ n <= MaxLengthDigits
     /\ n > 1 => s[1] # "0"
     /\ n < Len(s) /\ s[n + 1] = ":"

\* Index of the type tag of the tnetstring s starts with; 0 when s does
\* not start with a whole one.
FrameEnd(s) ==
  IF ~GoodPrefix(s) THEN 0
  ELSE LET n == LeadDigits(s, 1)
           end == n + 1 + DecimalValue(s, n) + 1
       IN IF end <= Len(s) THEN end ELSE 0

PayloadOf(s) == SubSeq(s, LeadDigits(s, 1) + 2, FrameEnd(s) - 1)

Decoders == {"loads", "pop", "load"}
OnlyDumped ==
  made.raw = 0 /\ made.long = 0 /\ made.junk = 0 /\ made.cut = 0 /\ made.wrap = 0
Encoding(v) == tnetstring_dumps(v, {}).rest

\* C1: decoding the encoding of a value gives back an equal value, for
\* null, booleans, integers, byte strings, lists and dicts of them.
C1_RoundTrip ==
  (last.op \in Decoders /\ ~last.oom /\ OnlyDumped /\ Len(sent) = 1
     /\ last.in = Encoding(sent[1]))
  => (last.ok /\ last.val = Norm(sent[1]))

\* C2: pop on encode(v) followed by encode(w) returns v and exactly
\* encode(w); on every success the remainder is the input after the first
\* value's type tag; bytes after the first value never make pop fail.
C2_PopFirst ==
  /\ (last.op = "pop" /\ made.pops = 1 /\ OnlyDumped /\ Len(sent) = 2)
       => (last.ok /\ last.val = Norm(sent[1]) /\ last.rest = Encoding(sent[2]))
  /\ (last.op = "pop" /\ last.ok)
       => (FrameEnd(last.in) > 0
             /\ last.rest = SubSeq(last.in, FrameEnd(last.in) + 1, Len(last.in)))
  /\ (last.op = "pop" /\ FrameEnd(last.in) > 0)
       => last.ok = tnetstring_pop(SubSeq(last.in, 1, FrameEnd(last.in)), 0, last.bits).ok

\* The input has bytes after the type tag of the tnetstring it starts with.
HasTrailing(s) == FrameEnd(s) > 0 /\ FrameEnd(s) < Len(s)

\* C3 as stated: loads fails whenever bytes remain after the type tag of
\* the first tnetstring.
C3_LoadsRejectsTrailing ==
  (last.op = "loads" /\ HasTrailing(last.in)) => ~last.ok

\* C3, amended: loads decodes the tnetstring the input starts with and
\* ignores every byte after its type tag: it succeeds or fails, and
\* returns the same value, as it does on that tnetstring alone.
C3_LoadsIgnoresTrailing ==
  (last.op = "loads" /\ ~last.oom /\ FrameEnd(last.in) > 0)
  => LET first == tnetstring_loads(SubSeq(last.in, 1, FrameEnd(last.in)), 0, last.bits)
     IN last.ok = first.ok /\ last.val = first.val

C3_TrailingIgnored ==
  last.op = "loads" /\ last.ok /\ HasTrailing(last.in) /\ made.junk = 1

RECURSIVE ExactFrame(_)
RECURSIVE ExactSequence(_)
\* s is one tnetstring whose numeral counts exactly the bytes between its
\* colon and its type tag, and so is every tnetstring nested in it.
ExactFrame(s) ==
  /\ s # <<>> /\ FrameEnd(s) = Len(s)
  /\ s[Len(s)] \in {tns_tag_list, tns_tag_dict} => ExactSequence(PayloadOf(s))
ExactSequence(s) ==
  \/ s = <<>>
  \/ /\ FrameEnd(s) > 0
     /\ ExactFrame(SubSeq(s, 1, FrameEnd(s)))
     /\ ExactSequence(SubSeq(s, FrameEnd(s) + 1, Len(s)))

NoDigit(s) == LeadDigits(s, 1) = 0
PaddedZero(s) == LeadDigits(s, 1) >= 2 /\ s[1] = "0"
DigitsToEnd(s) == LeadDigits(s, 1) >= 1 /\ LeadDigits(s, 1) = Len(s)
NoColon(s) ==
  /\ LeadDigits(s, 1) >= 1 /\ LeadDigits(s, 1) < Len(s)
  /\ s[LeadDigits(s, 1) + 1] # ":"
BadPrefix(s) == NoDigit(s) \/ PaddedZero(s) \/ DigitsToEnd(s) \/ NoColon(s)
\* A numeral without padding exceeds TNS_MAX_LENGTH (all nines) exactly
\* when it has more digits.
Oversized(s) == LeadDigits(s, 1) > MaxLengthDigits /\ s[1] # "0"
PrefixStages == {"prefix", "bound", "colon"}

\* C5 as stated: tns_parse fails with the invalid-length-prefix error on
\* the four malformed prefixes and accepts the prefix of every other input.
C5_PrefixRejectedOnlyIfMalformed ==
  last.op \in {"loads", "pop"}
  => /\ BadPrefix(last.in)
          => (~last.ok /\ last.err = ErrLengthPrefix /\ last.fail \in PrefixStages)
     /\ ~BadPrefix(last.in) => last.fail \notin PrefixStages

\* C5, amended: tns_parse fails with the invalid-length-prefix error,
\* returning no value, on the four malformed prefixes; it fails at the
\* prefix otherwise only when the bound check of tns_strtosz fires, which
\* it does only on a prefix whose value exceeds 999,999,999, and on every
\* such prefix unless the value wrapped around size_t; it accepts every
\* other prefix.
C5_PrefixValidation ==
  last.op \in {"loads", "pop"}
  => /\ BadPrefix(last.in)
          => (~last.ok /\ last.val = NoVal /\ last.err = ErrLengthPrefix
                /\ last.fail \in PrefixStages)
     /\ last.fail \in {"prefix", "colon"} => BadPrefix(last.in)
     /\ last.fail = "bound"
          => (Oversized(last.in) /\ ~last.ok /\ last.val = NoVal
                /\ last.err = ErrLengthPrefix)
     /\ (Oversized(last.in) /\ ~last.wrapped) => last.fail \in PrefixStages
     /\ GoodPrefix(last.in) => last.fail \notin PrefixStages

C5_PaddedZeroRejected ==
  /\ last.op \in {"loads", "pop"} /\ PaddedZero(last.in) /\ ~last.ok
  /\ Len(last.in) > LeadDigits(last.in, 1)
  /\ last.in[LeadDigits(last.in, 1) + 1] = ":"

\* The prefix and the colon are well formed but fewer than length + 1
\* bytes follow the colon.
Truncated(s) ==
  /\ GoodPrefix(s)
  /\ Len(s) - (LeadDigits(s, 1) + 1) < DecimalValue(s, LeadDigits(s, 1)) + 1

\* The error kinds of the specification, by the message the code raises.
ErrKind(err) ==
  CASE err \in {ErrLengthPrefix, ErrAbsurdLength, ErrLoadPrefix, ErrLoadColon}
         -> "InvalidLengthPrefix"
    [] err = ErrTypeTag -> "InvalidTypeTag"
    [] err \in {ErrString, ErrInteger, ErrFloat, ErrBoolean, ErrNull, ErrDict, ErrList}
         -> "InvalidPayload"
    [] OTHER -> "none"

\* C6 as stated: on a truncated input tns_parse fails with the
\* TruncatedInput error kind and returns no value.
C6_TruncatedKind ==
  (last.op \in {"loads", "pop"} /\ Truncated(last.in))
  => (~last.ok /\ last.val = NoVal /\ ErrKind(last.err) = "TruncatedInput")

\* C6, amended: on a truncated input tns_parse fails at its third check,
\* with the same invalid-length-prefix error as a malformed prefix, and
\* returns no value; no payload byte is read.
C6_TruncatedFails ==
  (last.op \in {"loads", "pop"} /\ Truncated(last.in))
  => /\ ~last.ok /\ last.val = NoVal /\ last.rcs = <<>>
     /\ last.fail = "truncated" /\ last.err = ErrLengthPrefix
     /\ ErrKind(last.err) = "InvalidLengthPrefix"
     /\ last.rd = LeadDigits(last.in, 1) + 1

C6_TagMissing ==
  /\ last.op \in {"loads", "pop"} /\ Truncated(last.in) /\ ~last.ok
  /\ made.cut = 1
  /\ Len(last.in) - (LeadDigits(last.in, 1) + 1)
       = DecimalValue(last.in, LeadDigits(last.in, 1))

\* The prefix has no padding and its value is exactly TNS_MAX_LENGTH.
AtBound(s) ==
  /\ LeadDigits(s, 1) = MaxLengthDigits /\ s[1] # "0"
  /\ DecimalValue(s, MaxLengthDigits) = TNS_MAX_LENGTH

\* C7: a length prefix above 999,999,999 is rejected with the
\* invalid-length-prefix error, no object is created and load issues no
\* read sized by the length; a prefix of exactly 999,999,999 passes the
\* bound check.
C7_OversizedRejected ==
  /\ (last.op \in Decoders /\ Oversized(last.in))
       => /\ ~last.ok /\ last.val = NoVal
          /\ ErrKind(last.err) = "InvalidLengthPrefix"
          /\ last.rcs = <<>>
          /\ \A i \in 1..Len(last.reads) : last.reads[i] = 1
  /\ (last.op \in {"loads", "pop"} /\ AtBound(last.in)) => last.fail # "bound"
  /\ (last.op = "load" /\ AtBound(last.in)) => last.err # ErrAbsurdLength

\* The integer literals of the specification: an optional single sign,
\* then one or more digits.
IntegerLiteral(p) ==
  LET k == IF p # <<>> /\ p[1] \in {"+", "-"} THEN 1 ELSE 0
  IN Len(p) > k /\ \A i \in (k + 1)..Len(p) : p[i] \in Digits

\* The input starts with a whole tnetstring of the integer type.
IntegerFrame(s) == FrameEnd(s) > 0 /\ s[FrameEnd(s)] = tns_tag_integer

\* C8: an integer payload is accepted if and only if it is an optional
\* single '+' or '-' followed by one or more digits.
C8_IntegerGrammar ==
  (last.op \in Decoders /\ IntegerFrame(last.in))
  => (last.ok <=> IntegerLiteral(PayloadOf(last.in)))

\* The literal p with zeros put before its first digit to make it n long.
ZeroPadded(p, n) ==
  LET k == IF p[1] \in {"+", "-"} THEN 1 ELSE 0
  IN SubSeq(p, 1, k) \o [i \in 1..(n - Len(p)) |-> "0"] \o SubSeq(p, k + 1, Len(p))

\* C9: the three paths of tns_parse_integer accept the same literals with
\* the same value: a payload that starts with an optional sign and a
\* digit is accepted or rejected, with the same value, as are its
\* zero-padded spellings that take the other two paths.
C9_PathsAgree ==
  (last.op \in Decoders /\ IntegerFrame(last.in))
  => LET p == PayloadOf(last.in)
         short == tns_parse_integer(Append(p, tns_tag_integer), 1, Len(p))
     IN (Len(p) < LongLongPathLen /\ IntegerLiteral(p))
        => \A n \in {LongLongPathLen, PyLongPathLen} :
             LET q == ZeroPadded(p, n)
                 long == tns_parse_integer(Append(q, tns_tag_integer), 1, n)
             IN /\ last.ok = short.ok
                /\ long.ok = short.ok
                /\ short.ok => long.v = short.v

\* C10: when a decode fails, every object created during the call has
\* been released exactly once: its reference count is zero, not positive
\* (leaked) and not negative (released twice).
C10_ReleasedOnce ==
  (last.op \in Decoders /\ ~last.ok)
  => \A i \in 1..Len(last.rcs) : last.rcs[i] = 0

(***************************************************************************)
(* Containers.                                                             *)
(***************************************************************************)
\* The type tag of the tnetstring s starts with.
TagOf(s) == s[FrameEnd(s)]

\* s as a concatenation of whole tnetstrings: els lists them, ok tells
\* that nothing is left over.
RECURSIVE Elements(_)
Elements(s) ==
  IF s = <<>> THEN [ok |-> TRUE, els |-> <<>>]
  ELSE IF FrameEnd(s) = 0 THEN [ok |-> FALSE, els |-> <<>>]
  ELSE LET r == Elements(SubSeq(s, FrameEnd(s) + 1, Len(s)))
       IN [ok |-> r.ok, els |-> <<SubSeq(s, 1, FrameEnd(s))>> \o r.els]

\* Some element of the container payload s fails to decode, elements
\* being taken off the front of s one after the other.
RECURSIVE ElementFails(_, _)
ElementFails(s, bits) ==
  /\ s # <<>>
  /\ LET r == tnetstring_pop(s, 0, bits)
     IN ~r.ok \/ ElementFails(r.rest, bits)

\* C11: when an element of a list or dict payload fails to decode, at any
\* depth, the decoding call fails and returns no value; a list that is
\* returned holds every element of its payload.
C11_NoPartialResult ==
  (last.op \in Decoders /\ FrameEnd(last.in) > 0
     /\ TagOf(last.in) \in {tns_tag_list, tns_tag_dict})
  => /\ ElementFails(PayloadOf(last.in), last.bits)
          => (~last.ok /\ last.val = NoVal)
     /\ (last.ok /\ TagOf(last.in) = tns_tag_list /\ ~last.wrapped)
          => /\ Elements(PayloadOf(last.in)).ok
             /\ Len(last.val.items) = Len(Elements(PayloadOf(last.in)).els)

\* A list whose first element decodes and whose second does not.
C11_LaterElementFails ==
  /\ last.op = "loads" /\ ~last.ok /\ ~last.oom
  /\ FrameEnd(last.in) > 0 /\ TagOf(last.in) = tns_tag_list
  /\ tnetstring_pop(PayloadOf(last.in), 0, last.bits).ok
  /\ ElementFails(PayloadOf(last.in), last.bits)

Decoded(e, bits) == tnetstring_loads(e, 0, bits)

\* The payload of the dict tnetstring s is an even number of whole
\* tnetstrings, each of which decodes on its own.
WellFormedDict(s, bits) ==
  /\ FrameEnd(s) > 0 /\ TagOf(s) = tns_tag_dict
  /\ Elements(PayloadOf(s)).ok
  /\ Len(Elements(PayloadOf(s)).els) % 2 = 0
  /\ \A i \in 1..Len(Elements(PayloadOf(s)).els) :
       Decoded(Elements(PayloadOf(s)).els[i], bits).ok

\* C13: decoding a well-formed dict payload succeeds whatever the type of
\* each key, and every key is stored as the value it decodes to.
C13_AnyKeyType ==
  (last.op \in Decoders /\ ~last.oom /\ ~last.wrapped
     /\ WellFormedDict(last.in, last.bits))
  => /\ last.ok
     /\ \A j \in 1..(Len(Elements(PayloadOf(last.in)).els) \div 2) :
          \E pr \in last.val.pairs :
            pr[1] = Decoded(Elements(PayloadOf(last.in)).els[(2 * j) - 1], last.bits).val

(***************************************************************************)
(* The payload rules.                                                      *)
(***************************************************************************)
\* The type of value and the error of the payload rule of a type tag.
RuleOf(tag) ==
  CASE tag = tns_tag_string -> [t |-> "str", err |-> ErrString]
    [] tag = tns_tag_integer -> [t |-> "int", err |-> ErrInteger]
    [] tag = tns_tag_float -> [t |-> "float", err |-> ErrFloat]
    [] tag = tns_tag_bool -> [t |-> "bool", err |-> ErrBoolean]
    [] tag = tns_tag_null -> [t |-> "null", err |-> ErrNull]
    [] tag = tns_tag_dict -> [t |-> "dict", err |-> ErrDict]
    [] tag = tns_tag_list -> [t |-> "list", err |-> ErrList]

\* C14: a whole tnetstring whose type tag is none of , # ^ ! ~ } ] fails
\* with the invalid-type-tag error and creates no object; one whose tag is
\* among them gives a value of that tag's type or fails with that tag's
\* error.
C14_TagDispatch ==
  (last.op \in Decoders /\ FrameEnd(last.in) > 0)
  => /\ TagOf(last.in) \notin Tags
          => (~last.ok /\ last.val = NoVal /\ last.err = ErrTypeTag
                /\ last.rcs = <<>>)
     /\ TagOf(last.in) \in Tags
          => IF last.ok THEN last.val.t = RuleOf(TagOf(last.in)).t
                        ELSE last.err = RuleOf(TagOf(last.in)).err

\* A whole tnetstring with an unknown type tag, rejected.
C14_UnknownTag ==
  /\ last.op = "loads" /\ FrameEnd(last.in) > 0 /\ TagOf(last.in) \notin Tags
  /\ ~last.ok /\ last.err = ErrTypeTag

\* C15: a ! payload decodes to true iff it is the four bytes "true", to
\* false iff it is the five bytes "false", and every other payload fails
\* with the invalid-boolean-literal error.
C15_BooleanLiteral ==
  (last.op \in Decoders /\ FrameEnd(last.in) > 0 /\ TagOf(last.in) = tns_tag_bool)
  => CASE PayloadOf(last.in) = <<"t", "r", "u", "e">> ->
            last.ok /\ last.val = PyBool(TRUE)
       [] PayloadOf(last.in) = <<"f", "a", "l", "s", "e">> ->
            last.ok /\ last.val = PyBool(FALSE)
       [] OTHER ->
            ~last.ok /\ last.val = NoVal /\ last.err = ErrBoolean /\ last.rcs = <<>>

\* A payload as long as "true" that differs from it, rejected.
C15_NearMiss ==
  /\ last.op = "loads" /\ FrameEnd(last.in) > 0 /\ TagOf(last.in) = tns_tag_bool
  /\ Len(PayloadOf(last.in)) = Len(<<"t", "r", "u", "e">>)
  /\ PayloadOf(last.in) # <<"t", "r", "u", "e">>
  /\ ~last.ok /\ last.err = ErrBoolean

Encoders == {"dumps", "render"}

\* Some node of the value tree of v has no type mapping.
RECURSIVE HasUnmapped(_)
HasUnmapped(v) ==
  CASE v.t = "list" -> \E i \in 1..Len(v.items) : HasUnmapped(v.items[i])
    [] v.t = "dict" ->
         \E i \in 1..Len(v.pairs) :
           HasUnmapped(v.pairs[i][1]) \/ HasUnmapped(v.pairs[i][2])
    [] OTHER -> tns_get_type(v) = NUL

C18_BufferReleased ==
  (last.op \in Encoders /\ ~last.ok) => last.live = 0

\* C19: a tns_render that fails returns no string and leaves the value
\* len points to as it was; one that succeeds with a len pointer stores
\* the number of bytes of the string there.
C19_LenUntouched ==
  /\ (last.op = "render" /\ ~last.ok)
       => (last.rest = <<>> /\ (last.haslen => last.len = last.len0))
  /\ (last.op = "render" /\ last.ok /\ last.haslen) => last.len = Len(last.rest)

\* A render that fails at a buffer growth, bytes already written, with a
\* len pointer given.
C19_FailedWithLen ==
  /\ last.op = "render" /\ ~last.ok /\ last.haslen /\ last.len0 = 1
  /\ last.nomem /\ last.err = ErrRender

\* The encodings of the items, one after the other.
RECURSIVE EncodedItems(_)
EncodedItems(items) ==
  IF items = <<>> THEN <<>> ELSE Encoding(Head(items)) \o EncodedItems(Tail(items))

\* Every list in the value tree of v is encoded as the encodings of its
\* items in index order, framed as a list.
RECURSIVE ListsExact(_)
ListsExact(v) ==
  CASE v.t = "list" ->
         /\ Encoding(v) = Frame(EncodedItems(v.items), tns_tag_list)
         /\ \A i \in 1..Len(v.items) : ListsExact(v.items[i])
    [] v.t = "dict" ->
         \A i \in 1..Len(v.pairs) : ListsExact(v.pairs[i][1]) /\ ListsExact(v.pairs[i][2])
    [] OTHER -> TRUE

RECURSIVE EncodedPairs(_)
EncodedPairs(pairs) ==
  IF pairs = <<>> THEN <<>>
  ELSE EncodedPairs(Tail(pairs)) \o Encoding(Head(pairs)[1]) \o Encoding(Head(pairs)[2])

\* Every dict in the value tree of v is encoded as its pairs, framed as a
\* dict.
RECURSIVE DictsExact(_)
DictsExact(v) ==
  CASE v.t = "dict" ->
         /\ Encoding(v) = Frame(EncodedPairs(v.pairs), tns_tag_dict)
         /\ \A i \in 1..Len(v.pairs) : DictsExact(v.pairs[i][1]) /\ DictsExact(v.pairs[i][2])
    [] v.t = "list" -> \A i \in 1..Len(v.items) : DictsExact(v.items[i])
    [] OTHER -> TRUE

RECURSIVE SumOf(_)
SumOf(ns) == IF ns = <<>> THEN 0 ELSE Head(ns) + SumOf(Tail(ns))

\* The reads of one item: one byte for each digit of the length and for
\* the colon, then the payload and its type tag at once.
ReadsOfOne(s) ==
  [i \in 1..(LeadDigits(s, 1) + 2) |->
     IF i <= LeadDigits(s, 1) + 1 THEN 1 ELSE DecimalValue(s, LeadDigits(s, 1)) + 1]

\* C22: when the source starts with a whole tnetstring, load reads one
\* byte at a time up to the colon and then length + 1 bytes at once, takes
\* from the source exactly the bytes of that tnetstring, and reads nothing
\* after its type tag, whether or not the payload then decodes.
C22_LoadReadsOneItem ==
  (last.op = "load" /\ FrameEnd(last.in) > 0)
  => /\ last.reads = ReadsOfOne(last.in)
     /\ last.p = FrameEnd(last.in)
     /\ SumOf(last.reads) = last.p

\* A load that succeeds on a source with bytes after the first item, the
\* length of the item being two digits long.
C22_BytesLeftInSource ==
  /\ last.op = "load" /\ last.ok
  /\ FrameEnd(last.in) > 0 /\ FrameEnd(last.in) < Len(last.in)
  /\ LeadDigits(last.in, 1) = 2

(***************************************************************************)
(* The output buffer.                                                      *)
(***************************************************************************)
\* The data of the calls, first call first.
RECURSIVE InCallOrder(_)
InCallOrder(log) ==
  IF log = <<>> THEN <<>> ELSE Head(log) \o InCallOrder(Tail(log))

\* The data of the calls, last call first, the bytes of each call in the
\* order they were given.
RECURSIVE LastCallFirst(_)
LastCallFirst(log) ==
  IF log = <<>> THEN <<>> ELSE LastCallFirst(Tail(log)) \o Head(log)

\* C23: the finalized output of the buffer of tns_core.c holds the bytes
\* of the puts in the order of the calls.
C23_CallOrder ==
  (out.phase = "final" /\ out.fin[1].ok) => out.fin[1].bytes = InCallOrder(out.log)

\* C23, amended: the finalized output holds the data of every put that
\* succeeded and nothing else, the data of a later call before the data of
\* an earlier one, the bytes of one puts in the order they were given; the
\* length stored is the number of those bytes, and without a length
\* pointer a NUL follows them.
C23_LastCallFirst ==
  (out.phase = "final" /\ out.fin[1].ok)
  => /\ out.fin[1].bytes = LastCallFirst(out.log)
     /\ out.haslen => out.fin[1].len = Len(LastCallFirst(out.log))
     /\ ~out.haslen => out.fin[1].term = NUL

\* A buffer finalized after a putc and then a puts of several bytes, after
\* it grew.
C23_PutcThenPuts ==
  /\ out.phase = "final" /\ out.fin[1].ok
  /\ Len(out.log) >= 2 /\ Len(out.log[1]) = 1 /\ Len(out.log[2]) > 1
  /\ out.back.alloc_size > InitialAllocSize

\* The two buffers hold the same bytes: the used region of the one read
\* forward is the used region of the other read backwards.
SameContent ==
  tns_outbuf_memmove(out.back)
    = SubSeq(tns_inplace_reverse(out.rev.buffer, out.rev.used_size), 1, out.rev.used_size)

\* C24: after every call made on both buffers the calls returned the same
\* and the buffers report the same size, and the two finalize calls return
\* the same: both a string or both none, the same bytes, the same length
\* stored and, when no length pointer is given, the same byte after the
\* string.
C24_Interchangeable ==
  /\ out.res[1] = out.res[2]
  /\ out.phase = "open"
       => tns_outbuf_size(out.back) = tns_outbuf_size_rev(out.rev) /\ SameContent
  /\ out.phase = "final"
       => /\ out.fin[1].ok = out.fin[2].ok
          /\ out.fin[1].bytes = out.fin[2].bytes
          /\ out.fin[1].len = out.fin[2].len
          /\ ~out.haslen => out.fin[1].term = out.fin[2].term

\* n is 64 times a power of two.
RECURSIVE IsAllocSize(_)
IsAllocSize(n) ==
  n = InitialAllocSize \/ (n > InitialAllocSize /\ n % 2 = 0 /\ IsAllocSize(n \div 2))

\* The sizes a growth is asked for.
RequestSizes == {1} \cup {Len(data) : data \in PutsData}

\* What tns_outbuf_extend makes of the buffer when it is asked for
\* free_size bytes and the allocation succeeds.
GrowsWell(outbuf, free_size) ==
  LET e == tns_outbuf_extend(outbuf, free_size)
  IN e.res = 0
     => /\ e.o.alloc_size >= 2 * outbuf.alloc_size
        /\ IsAllocSize(e.o.alloc_size)
        /\ e.o.head >= free_size /\ e.o.head <= e.o.alloc_size
        /\ tns_outbuf_memmove(e.o) = tns_outbuf_memmove(outbuf)

\* C27: after init and any puts, head lies within the allocation, the
\* allocation is 64 times a power of two bytes, the used region holds the
\* bytes written so far and no others; a put that fails leaves all of this
\* as it was; and a growth of the buffer at least doubles the allocation,
\* leaves at least the free space asked for, and keeps the used bytes.
C27_GrowthInvariant ==
  out.phase = "open"
  => /\ out.back.head >= 0 /\ out.back.head <= out.back.alloc_size
     /\ Len(out.back.buffer) = out.back.alloc_size
     /\ IsAllocSize(out.back.alloc_size)
     /\ tns_outbuf_memmove(out.back) = LastCallFirst(out.log)
     /\ tns_outbuf_size(out.back) = Len(LastCallFirst(out.log))
     /\ \A n \in RequestSizes : GrowsWell(out.back, n)

\* A buffer that grew to four times its first size in one puts, bytes
\* being in it already.
C27_GrewFourfold ==
  /\ out.phase = "open" /\ out.res[1] = 0
  /\ out.back.alloc_size = 4 * InitialAllocSize
  /\ Len(out.log) >= 2 /\ Len(out.log[Len(out.log)]) = QuadLen

(***************************************************************************)
(* The container loops.                                                    *)
(***************************************************************************)
\* C25: every tns_parse that a loop of tns_parse_list or tns_parse_dict
\* makes and that returns a value consumed at least 3 bytes and at most
\* the bytes the loop had left, so the length left gets smaller at every
\* turn and never goes below 0.
C25_LoopProgress ==
  last.op \in Decoders
  => \A i \in 1..Len(last.uses) :
       /\ last.uses[i][1] >= 3
       /\ last.uses[i][1] <= last.uses[i][2]
       /\ last.uses[i][2] - last.uses[i][1] < last.uses[i][2]

\* A container decoded with two elements or more, one of them taking all
\* the bytes that were left and one taking three bytes exactly.
C25_LoopRanTwice ==
  /\ last.op \in Decoders /\ last.ok /\ Len(last.uses) >= 2
  /\ \E i \in 1..Len(last.uses) : last.uses[i][1] = last.uses[i][2]
  /\ \E i \in 1..Len(last.uses) : last.uses[i][1] = 3

(***************************************************************************)
(* Reads of the input.                                                     *)
(***************************************************************************)
\* C26: no call of tns_parse, and no call of tns_parse_payload with the
\* parsers it calls, reads a byte at or after the end of the slice it was
\* given.
C26_BoundedReads ==
  last.op \in Decoders => ~last.over

(***************************************************************************)
(* Nesting.                                                                *)
(***************************************************************************)
Parsers == {"loads", "pop"}

\* C28: on an input of len bytes the calls of tns_parse that are active at
\* one time are never more than len / 3, rounded down.
C28_DepthWithinThird ==
  last.op \in Parsers => last.deep <= Len(last.in) \div 3

\* C28, amended: on an input of len bytes the calls of tns_parse that are
\* active at one time are never more than len / 3, rounded down, plus one,
\* the innermost being a call that fails; when the input decodes they are
\* never more than len / 3, rounded down.
C28_DepthBounded ==
  last.op \in Parsers
  => /\ last.deep >= 1
     /\ last.deep <= (Len(last.in) \div 3) + 1
     /\ last.ok => last.deep <= Len(last.in) \div 3

\* An input of nine bytes decoded with three calls of tns_parse active.
C28_ThreeDeep ==
  /\ last.op \in Parsers /\ last.ok
  /\ last.deep = 3 /\ Len(last.in) = 9

(***************************************************************************)
(* The integer paths.                                                      *)
(***************************************************************************)
\* The number of decimal digits of the largest value of a signed C
\* integer type that is all nines: 999,999,999 fits 32 bits and
\* 10^18 - 1 fits 64 bits.
NinesThatFit(type) == IF type = "long" THEN 9 ELSE 18

\* The length prefix of the bytes last decoded, and whether they start
\* with a whole frame tagged as an integer.
DecodedPrefix == tns_strtosz(last.in, 1, Len(last.in), last.bits)
IntegerDecoded ==
  /\ last.op \in Decoders
  /\ DecodedPrefix.res = 0
  /\ At(last.in, DecodedPrefix.end) = ":"
  /\ (DecodedPrefix.end + 1) + DecodedPrefix.sz < 1 + Len(last.in)
  /\ At(last.in, (DecodedPrefix.end + 1) + DecodedPrefix.sz) = tns_tag_integer

\* What tns_parse_integer gathered from the payload of that frame.
Gathered == tns_parse_integer(last.in, DecodedPrefix.end + 1, DecodedPrefix.sz).acc

\* C29: what tns_parse_integer gathers in a long is never more than
\* 999,999,999 and what it gathers in a long long never more than
\* 10^18 - 1, whether the payload is accepted or refused; the digits only
\* add to the magnitude, so its value when the loop ends is its largest,
\* and the sign does not change it.
C29_NoOverflow ==
  IntegerDecoded /\ Gathered[1] \in {"long", "long long"}
  => Len(StripZeros(Gathered[2])) <= NinesThatFit(Gathered[1])

\* An integer of eighteen nines decoded on the long long path.
C29_LargestLongLong ==
  /\ IntegerDecoded /\ last.ok /\ last.val.t = "int"
  /\ Gathered = <<"long long", [i \in 1..18 |-> 9]>>

(***************************************************************************)
(* load against pop.                                                       *)
(***************************************************************************)
\* What pop returns on the bytes the source of the last load yields, in
\* the same build.
PopOfLoaded == tnetstring_pop(last.in, 0, last.bits)

\* C30: load on a source that yields s succeeds exactly when pop(s)
\* succeeds, which is tns_parse(s) asked for a remainder, and then
\* both return the same value.
C30_LoadAgreesWithPop ==
  last.op = "load"
  => /\ last.ok <=> PopOfLoaded.ok
     /\ last.ok => last.val = PopOfLoaded.val

\* A load that decoded a value from a source with bytes after it.
C30_LoadedWithRest ==
  /\ last.op = "load" /\ last.ok /\ PopOfLoaded.ok
  /\ PopOfLoaded.rest # <<>>

====
